---- MODULE Spec2Model ----
(***************************************************************************)
(* Event clustering, rhetoric analysis and trajectory prediction of        *)
(* worldnews_analysis:                                                     *)
(*   src/src/models/article.py          Article, ArticleCluster            *)
(*   src/src/utils/nlp_utils.py         NLPProcessor                       *)
(*   src/src/agents/event_clustering.py EventClusteringAgent               *)
(*   src/src/agents/rhetoric_analyzer.py RhetoricAnalyzerAgent             *)
(*   src/src/agents/prediction_agent.py PredictionAgent                    *)
(*   src/src/agents/coordinator.py      CoordinatorAgent                   *)
(*                                                                         *)
(* Numbers.  Embeddings are integer vectors.  A cosine similarity is the   *)
(* real d / sqrt(m) and is carried as the pair [d, m] with m > 0; all      *)
(* comparisons are done exactly on such pairs.  The similarity threshold   *)
(* is carried in tenths (7 stands for 0.7).  A centroid, the elementwise   *)
(* mean of n vectors, is carried as [sum, n] and stands for sum / n.       *)
(* Times (published_at, datetime.now()) are naturals and count days.       *)
(* A sentiment, a mean of sentiments and a confidence are float64 values,  *)
(* computed bit for bit.  A quotient of two integers that the code only    *)
(* compares with an integer, and the least-squares slope, are exact        *)
(* fractions [num, den] with den > 0.  Stored sentiment scores are carried *)
(* in tenths.  An Optional value is a sequence of length at most one, <<>> *)
(* for None.  A call that ends with an exception leaves lastOp = "raised". *)
(***************************************************************************)
EXTENDS Integers, Sequences, FiniteSets

VARIABLES
    similarity_threshold,   \* EventClusteringAgent.similarity_threshold, in tenths
    min_cluster_size,       \* EventClusteringAgent.min_cluster_size
    clusters,               \* the cluster list handed from call to call
    merges,                 \* number of merge_clusters calls made so far
    lastOp,                 \* the last call made: "none", "cluster", "configure",
                            \* "merge", "load", "stats", "analyze", "predict",
                            \* "summary", "add_article", "confidence"; "raised"
                            \* when the last call let an exception out
    lastNew,                \* the article list given to the last call
    lastAssign,             \* per article of the last merge: index of the cluster
                            \* add_article was called on, 0 when it was not; of a
                            \* merge that raised in its loop, the articles before
                            \* the one at which it raised
    stats,                  \* result of get_cluster_statistics, <<>> before the call
    analyses,               \* analyze_cluster of every cluster, in cluster order
    predictions,            \* predict_trajectory of every cluster, in cluster order
    summary,                \* result of generate_summary_report, <<>> before the call
    writers                 \* the add_article calls in progress on clusters[1]: of
                            \* every caller its position, its article and the
                            \* length it has read; <<>> when there is none

vars == <<similarity_threshold, min_cluster_size, clusters, merges,
          lastOp, lastNew, lastAssign, stats, analyses, predictions, summary,
          writers>>

(***************************************************************************)
(* Bounds                                                                  *)
(***************************************************************************)
MaxBatch == 3     \* longest article list given to cluster_articles by a full run
MaxNew == 1       \* longest article list given to merge_clusters after a full run
MaxMerges == 1    \* merge_clusters calls after a full run
MaxSaved == 2     \* longest article list of the full run that update runs follow
MaxUpdateNew == 2 \* longest article list given to merge_clusters by an update run
MaxUpdates == 2   \* update runs in one behaviour
MaxMembers == 4   \* most members of a stored cluster handed to the analyzer
MaxTrend == 4     \* most trend points of an analysis handed to _calculate_confidence
MaxPredictions == 4  \* longest prediction list given to generate_summary_report
MaxWriters == 2   \* callers of add_article on one cluster at a time
MaxBorderBatch == 7  \* longest list of the articles of two touching dense regions
MaxCoverage == 40   \* longest member list whose coverage trend is computed on its length alone

(***************************************************************************)
(* Configurations <<similarity_threshold, min_cluster_size>>: the default  *)
(* <<0.7, 2>>, and 0.7 with single-article clusters, threshold 0.0 and     *)
(* threshold 1.0 (eps = 0).                                                *)
(***************************************************************************)
Configs == << <<7, 2>>, <<7, 1>>, <<0, 1>>, <<10, 1>> >>

(***************************************************************************)
(* Article (article.py 6-19).  An article whose embedding is None or [] has *)
(* embedding <<>>; sentiment_score is <<>> for None and <<s>> for s / 10.  *)
(* title and description are word lists, <<>> for an empty title and for a *)
(* description that is None or ''.  text stands for the string             *)
(* f"{title} {description or ''}" the analyzer reads: the number of its    *)
(* words in the positive and in the negative word list of                  *)
(* analyze_sentiment_simple, the set of urgency terms                      *)
(* detect_urgency_indicators finds in it, and its words.                   *)
(***************************************************************************)
Text(p, n, u, w) == [pos |-> p, neg |-> n, urgent |-> u, words |-> w]

\* six of the terms matched by the urgency patterns (nlp_utils.py 129-135)
UrgencyTerms == {"breaking", "urgent", "deadline", "critical", "now", "must"}

\* the words of the vocabulary in the word lists of nlp_utils.py 103-112, and
\* the urgency terms of the vocabulary: 'crisis' is a negative word too
PositiveWords == {"peace"}
NegativeWords == {"conflict", "war", "crisis"}
UrgencyWords == UrgencyTerms \cup {"crisis"}

\* the words of f"{title} {description or ''}"
TextWords(title, description) == title \o description

\* what analyze_sentiment_simple and detect_urgency_indicators see of the words
TextOf(words) ==
    Text(Cardinality({k \in 1..Len(words) : words[k] \in PositiveWords}),
         Cardinality({k \in 1..Len(words) : words[k] \in NegativeWords}),
         {words[k] : k \in 1..Len(words)} \cap UrgencyWords,
         words)

Article(i, e, p, kw, s, ttl, desc, src) ==
    [id |-> i, embedding |-> e, published_at |-> p, keywords |-> kw,
     sentiment_score |-> s, text |-> TextOf(TextWords(ttl, desc)),
     title |-> ttl, description |-> desc, source |-> src]

\* the articles given to the clustering; the embedding of article 6 comes
\* from a model of another dimension
Articles ==
    { Article(1, <<2, 0>>, 1, <<"talks", "border">>, <<-5>>,
              <<"ukraine", "border", "talks">>, <<"crisis">>, "bbc"),
      Article(2, <<1, 1>>, 0, <<"border">>, <<0>>,
              <<"the", "border">>, <<>>, "cnn"),
      Article(3, <<0, 1>>, 1, <<"summit">>, <<3>>,
              <<"putin", "summit">>, <<"peace">>, "bbc"),
      Article(4, <<2, 0>>, 1, <<"border", "talks">>, <<>>,
              <<"war", "the">>,
              <<"peace", "peace", "peace", "conflict", "urgent", "now">>, "rt"),
      Article(5, <<>>, 0, <<>>, <<>>,
              <<>>, <<>>, "cnn"),
      Article(6, <<1, 1, 1>>, 0, <<>>, <<>>,
              <<"summit">>, <<>>, "dw") }

\* the members of the stored clusters given to the analyzer; the title of
\* article 15 is two words of 60 letters
RhetoricArticles ==
    { Article(11, <<1, 0>>, 0, <<>>, <<>>, <<>>,
              <<"peace", "breaking", "urgent", "deadline", "critical", "now", "must">>,
              "bbc"),
      Article(12, <<1, 0>>, 0, <<>>, <<>>, <<"talks", "border">>,
              <<"conflict">>, "cnn"),
      Article(13, <<1, 0>>, 1, <<>>, <<>>, <<>>,
              <<"conflict", "breaking", "urgent", "deadline", "critical", "now", "must">>,
              "bbc"),
      Article(14, <<1, 0>>, 0, <<>>, <<>>, <<"border", "talks", "summit">>,
              <<"peace">>, "rt"),
      Article(15, <<1, 0>>, 0, <<>>, <<3>>,
              <<"wwwwwwwwwwwwwwwwwwwwwwwwwwwwwwwwwwwwwwwwwwwwwwwwwwwwwwwwwwww",
                "vvvvvvvvvvvvvvvvvvvvvvvvvvvvvvvvvvvvvvvvvvvvvvvvvvvvvvvvvvvv">>,
              <<>>, "bbc"),
      Article(16, <<1, 0>>, 1, <<>>, <<-5>>, <<"war", "ukraine">>,
              <<"peace", "peace", "peace", "conflict">>, "cnn"),
      Article(17, <<1, 0>>, 1, <<>>, <<0>>, <<"putin", "nato">>,
              <<"peace", "peace", "conflict", "conflict", "conflict">>, "rt"),
      Article(18, <<1, 0>>, 2, <<>>, <<3>>, <<>>,
              <<"breaking", "now", "must">>, "dw") }

\* datetime.now() reads one of the time points at which articles are published
Times == {a.published_at : a \in Articles}

RECURSIVE SeqsUpTo(_, _)
SeqsUpTo(S, n) ==
    IF n = 0 THEN {<<>>}
    ELSE LET shorter == SeqsUpTo(S, n - 1)
         IN  shorter \cup {Append(s, x) : s \in {t \in shorter : Len(t) = n - 1}, x \in S}

\* no id occurs twice in the article list s
DistinctIds(s) == \A j \in 1..Len(s) : \A k \in 1..Len(s) : s[j].id = s[k].id => j = k

RECURSIVE SelectIdx(_, _, _)
\* the subsequence of s at the positions in P, in order, from position k on
SelectIdx(s, P, k) ==
    IF k > Len(s) THEN <<>>
    ELSE (IF k \in P THEN <<s[k]>> ELSE <<>>) \o SelectIdx(s, P, k + 1)

(***************************************************************************)
(* IEEE 754 binary64 arithmetic, round to nearest, ties to even: the       *)
(* arithmetic of Python floats and of numpy float64.  A finite float is    *)
(* neg, m, e and stands for (-1)^neg * m * 2^e with m odd, or m zero; m is *)
(* a natural number given by its digits in base 2^15, lowest first,        *)
(* without leading zero digits.  Magnitudes stay far from the overflow and *)
(* the subnormal range.                                                    *)
(***************************************************************************)
LimbBase == 2 ^ 15

\* the number of bits of a digit
LimbBits == CHOOSE k \in 1..30 : 2 ^ k = LimbBase

Limb(a, i) == IF i >= 1 /\ i <= Len(a) THEN a[i] ELSE 0

Highest(S) == CHOOSE x \in S : \A y \in S : y <= x

Zeros(n) == [k \in 1..n |-> 0]

\* the digits of a without the zero digits at the high end
BigTrim(a) ==
    IF \A i \in 1..Len(a) : a[i] = 0 THEN <<>>
    ELSE SubSeq(a, 1, Highest({i \in 1..Len(a) : a[i] # 0}))

\* the digits of n, 0 <= n < 2^31
BigOfInt(n) ==
    BigTrim(<<n % LimbBase, (n \div LimbBase) % LimbBase, n \div (LimbBase * LimbBase)>>)

\* the number whose digit i is s[i], for entries s[i] in 0 .. 2 * LimbBase - 2:
\* a carry goes into digit i when a digit below it is LimbBase or more and
\* the digits between the two are all LimbBase - 1
BigCarry(s) ==
    BigTrim([i \in 1..(Len(s) + 1) |->
                (Limb(s, i)
                 + (IF \E j \in 1..(i - 1) :
                          s[j] >= LimbBase /\ \A k \in (j + 1)..(i - 1) : s[k] = LimbBase - 1
                    THEN 1 ELSE 0)) % LimbBase])

BigAdd(a, b) ==
    IF a = <<>> THEN b
    ELSE IF b = <<>> THEN a
    ELSE BigCarry([i \in 1..(IF Len(a) > Len(b) THEN Len(a) ELSE Len(b)) |->
                      Limb(a, i) + Limb(b, i)])

\* a - b for a >= b: digit i borrows when a digit of a below it is less than
\* the digit of b and the digits of a and b between the two are equal
BigSub(a, b) ==
    IF b = <<>> THEN a
    ELSE BigTrim([i \in 1..Len(a) |->
                     (a[i] - Limb(b, i) + LimbBase
                      - (IF \E j \in 1..(i - 1) :
                               a[j] < Limb(b, j) /\ \A k \in (j + 1)..(i - 1) : a[k] = Limb(b, k)
                         THEN 1 ELSE 0)) % LimbBase])

\* -1, 0, 1 as a < b, a = b, a > b
BigCmp(a, b) ==
    IF Len(a) # Len(b) THEN (IF Len(a) < Len(b) THEN -1 ELSE 1)
    ELSE IF a = b THEN 0
    ELSE IF \E i \in 1..Len(a) : a[i] < b[i] /\ \A j \in (i + 1)..Len(a) : a[j] = b[j]
         THEN -1 ELSE 1

\* a * d for a digit d: the low parts of the products a[i] * d and, one
\* digit higher, their high parts
BigMulSmall(a, d) ==
    IF a = <<>> \/ d = 0 THEN <<>>
    ELSE BigCarry([i \in 1..(Len(a) + 1) |->
                      ((Limb(a, i) * d) % LimbBase) + ((Limb(a, i - 1) * d) \div LimbBase)])

RECURSIVE BigMulFrom(_, _, _)
\* the sum of a * b[j] * LimbBase^(j - 1) from digit j of b on
BigMulFrom(a, b, j) ==
    IF j > Len(b) THEN <<>>
    ELSE BigAdd(Zeros(j - 1) \o BigMulSmall(a, b[j]), BigMulFrom(a, b, j + 1))

BigMul(a, b) ==
    IF a = <<>> \/ b = <<>> THEN <<>>
    ELSE IF Len(a) < Len(b) THEN BigMulFrom(b, a, 1) ELSE BigMulFrom(a, b, 1)

\* the number of bits of the digit x
BitLength(x) == Cardinality({k \in 0..(LimbBits - 1) : 2 ^ k <= x})

BigBitLength(a) ==
    IF a = <<>> THEN 0 ELSE LimbBits * (Len(a) - 1) + BitLength(a[Len(a)])

\* a * 2^n
BigShiftLeft(a, n) ==
    IF a = <<>> THEN <<>>
    ELSE Zeros(n \div LimbBits) \o BigMulSmall(a, 2 ^ (n % LimbBits))

\* kept \div low for a power low of 2 below LimbBase, high * low = LimbBase
BigShiftDigits(kept, low, high) ==
    BigTrim([i \in 1..Len(kept) |-> (kept[i] \div low) + ((Limb(kept, i + 1) % low) * high)])

\* a \div 2^n
BigShiftRight(a, n) ==
    IF n \div LimbBits >= Len(a) THEN <<>>
    ELSE BigShiftDigits(SubSeq(a, (n \div LimbBits) + 1, Len(a)),
                        2 ^ (n % LimbBits), 2 ^ (LimbBits - (n % LimbBits)))

\* whether one of the n lowest bits of a is 1
BigLowBits(a, n) ==
    \E k \in 1..Len(a) :
        \/ k <= n \div LimbBits /\ a[k] # 0
        \/ k = (n \div LimbBits) + 1 /\ a[k] % (2 ^ (n % LimbBits)) # 0

BigIsOdd(a) == a # <<>> /\ a[1] % 2 = 1

\* the number of zero bits below the lowest bit 1 of a # 0
BigTrailingZeros(a) ==
    Cardinality({n \in 1..(LimbBits * Len(a)) : ~BigLowBits(a, n)})

\* the largest digit d with d * b <= r, for r < b * LimbBase and the highest
\* digit of b at least LimbBase / 2: the quotient of the two highest digits
\* of r by the highest digit of b is d, d + 1 or d + 2
BigDigitNear(r, b, d0) ==
    IF BigCmp(BigMulSmall(b, d0), r) <= 0 THEN d0
    ELSE IF BigCmp(BigMulSmall(b, d0 - 1), r) <= 0 THEN d0 - 1
    ELSE d0 - 2

BigDigit(r, b) ==
    BigDigitNear(r, b, Highest({d \in {0, LimbBase - 1,
                                         (Limb(r, Len(b) + 1) * LimbBase + Limb(r, Len(b))) \div b[Len(b)]} :
                                   /\ d < LimbBase
                                   /\ d <= (Limb(r, Len(b) + 1) * LimbBase + Limb(r, Len(b))) \div b[Len(b)]}))

\* one step of the long division by b: the digit d of the quotient goes in
\* front of q, and d * b is taken off the remainder r, d the largest digit
\* with d * b <= r
BigDivStepBy(b, q, r, d) == [q |-> <<d>> \o q, r |-> BigSub(r, BigMulSmall(b, d))]

BigDivStep(b, q, r) == BigDivStepBy(b, q, r, BigDigit(r, b))

RECURSIVE BigDivModFrom(_, _, _, _)
\* long division of the digits i..1 of a by b, st the quotient and the
\* remainder of the digits above: digit i of a is brought down to the
\* remainder, and each step is computed before the next one starts
BigDivModFrom(a, b, i, st) ==
    IF i = 0 THEN st
    ELSE CHOOSE end \in {BigDivModFrom(a, b, i - 1, s) :
                             s \in {BigDivStep(b, st.q, BigTrim(<<a[i]>> \o st.r))}} : TRUE

\* the quotient q of a by b # 0, and the remainder r times a power of 2: a
\* and b are first multiplied by the power of 2 that brings the highest
\* digit of b to LimbBase / 2 or more
BigDivModScaled(a, b) ==
    IF Len(a) < Len(b) THEN [q |-> <<>>, r |-> a]
    ELSE BigDivModFrom(a, b, Len(a) - Len(b) + 1,
                       [q |-> <<>>, r |-> SubSeq(a, Len(a) - Len(b) + 2, Len(a))])

BigDivMod(a, b) ==
    BigDivModScaled(BigMulSmall(a, 2 ^ (LimbBits - BitLength(b[Len(b)]))),
                    BigMulSmall(b, 2 ^ (LimbBits - BitLength(b[Len(b)]))))

RECURSIVE BigSqrtFrom(_, _)
\* Newton's iteration from x >= sqrt(a) down to the largest r with r * r <= a
BigSqrtFrom(a, x) ==
    CHOOSE root \in {IF BigCmp(y, x) >= 0 THEN x ELSE BigSqrtFrom(a, y) :
                        y \in {BigShiftRight(BigAdd(x, BigTrim(BigDivMod(a, x).q)), 1)}} : TRUE

BigSqrt(a) ==
    IF a = <<>> THEN <<>> ELSE BigSqrtFrom(a, BigShiftLeft(<<1>>, (BigBitLength(a) + 1) \div 2))

Float(neg, m, e) == [nan |-> FALSE, neg |-> neg, m |-> m, e |-> e]

FloatNaN == [nan |-> TRUE, neg |-> FALSE, m |-> <<>>, e |-> 0]

FloatZero == Float(FALSE, <<>>, 0)

\* m * 2^e with the zero bits at the low end of m moved into e
FloatOddBy(neg, m, e, z) == Float(neg, BigShiftRight(m, z), e + z)

FloatOdd(neg, m, e) ==
    IF m = <<>> THEN FloatZero ELSE FloatOddBy(neg, m, e, BigTrailingZeros(m))

\* the float nearest to a number in [m * 2^e, (m + 1) * 2^e), strictly above
\* m * 2^e when sticky; m has more than 53 bits when sticky.  The drop
\* lowest bits of m go: the result is rounded up when the highest of them is
\* 1 and either a lower one is 1 or the bit kept above them is 1
BigRoundUp(q, half, sticky) ==
    IF half /\ (sticky \/ BigIsOdd(q)) THEN BigAdd(q, <<1>>) ELSE q

\* m \div 2^drop, rounded
BigRound(m, sticky, drop) ==
    IF drop = 0 THEN m
    ELSE BigRoundUp(BigShiftRight(m, drop), BigIsOdd(BigShiftRight(m, drop - 1)),
                    sticky \/ BigLowBits(m, drop - 1))

FloatRoundTo(neg, m, e, sticky, drop) == FloatOdd(neg, BigRound(m, sticky, drop), e + drop)

FloatRound(neg, m, e, sticky) ==
    FloatRoundTo(neg, m, e, sticky, IF BigBitLength(m) > 53 THEN BigBitLength(m) - 53 ELSE 0)

FloatOfInt(n) == FloatOdd(n < 0, BigOfInt(IF n < 0 THEN -n ELSE n), 0)

FloatNeg(a) == IF a.nan \/ a.m = <<>> THEN a ELSE [a EXCEPT !.neg = ~a.neg]

FloatAbs(a) == IF a.nan THEN a ELSE [a EXCEPT !.neg = FALSE]

\* -1, 0, 1 as |a| < |b|, |a| = |b|, |a| > |b|
FloatCmpAbs(a, b) ==
    IF a.m = <<>> \/ b.m = <<>>
    THEN (IF a.m = b.m THEN 0 ELSE IF a.m = <<>> THEN -1 ELSE 1)
    ELSE IF BigBitLength(a.m) + a.e # BigBitLength(b.m) + b.e
    THEN (IF BigBitLength(a.m) + a.e < BigBitLength(b.m) + b.e THEN -1 ELSE 1)
    ELSE BigCmp(IF a.e > b.e THEN BigShiftLeft(a.m, a.e - b.e) ELSE a.m,
                IF b.e > a.e THEN BigShiftLeft(b.m, b.e - a.e) ELSE b.m)

\* a comparison with nan is false
FloatLT(a, b) ==
    /\ ~a.nan /\ ~b.nan
    /\ IF a.neg # b.neg THEN a.neg /\ (a.m # <<>> \/ b.m # <<>>)
       ELSE FloatCmpAbs(a, b) = (IF a.neg THEN 1 ELSE -1)

FloatGT(a, b) == FloatLT(b, a)

\* m is odd or zero, and zero has one form: equal floats have equal forms
FloatEq(a, b) == ~a.nan /\ ~b.nan /\ a = b

\* the float of x * 2^e, negative as aneg, plus y * 2^e, negative as bneg
FloatAddAt(aneg, x, bneg, y, e) ==
    FloatRound(IF aneg = bneg \/ BigCmp(x, y) >= 0 THEN aneg ELSE bneg,
               IF aneg = bneg THEN BigAdd(x, y)
               ELSE IF BigCmp(x, y) >= 0 THEN BigSub(x, y)
               ELSE BigSub(y, x),
               e, FALSE)

FloatAdd(a, b) ==
    IF a.nan \/ b.nan THEN FloatNaN
    ELSE IF a.m = <<>> THEN b
    ELSE IF b.m = <<>> THEN a
    ELSE FloatAddAt(a.neg, IF a.e > b.e THEN BigShiftLeft(a.m, a.e - b.e) ELSE a.m,
                    b.neg, IF b.e > a.e THEN BigShiftLeft(b.m, b.e - a.e) ELSE b.m,
                    IF a.e < b.e THEN a.e ELSE b.e)

FloatSub(a, b) == FloatAdd(a, FloatNeg(b))

FloatMul(a, b) ==
    IF a.nan \/ b.nan THEN FloatNaN
    ELSE FloatRound(a.neg # b.neg, BigMul(a.m, b.m), a.e + b.e, FALSE)

\* a / b for b # 0: the quotient is taken to 56 bits or more
FloatDivBy(neg, qr, e) == FloatRound(neg, BigTrim(qr.q), e, qr.r # <<>>)

FloatDivAt(a, b, shift) ==
    FloatDivBy(a.neg # b.neg, BigDivMod(BigShiftLeft(a.m, shift), b.m), a.e - shift - b.e)

FloatDiv(a, b) ==
    IF a.nan \/ b.nan THEN FloatNaN
    ELSE IF a.m = <<>> THEN FloatZero
    ELSE FloatDivAt(a, b, IF 56 + BigBitLength(b.m) > BigBitLength(a.m)
                          THEN 56 + BigBitLength(b.m) - BigBitLength(a.m)
                          ELSE 0)

\* the square root of a >= 0: the root is taken to 55 bits or more
FloatSqrtBy(x, root, e) == FloatRound(FALSE, root, e, BigMul(root, root) # x)

FloatSqrtOf(x, e) == FloatSqrtBy(x, BigSqrt(x), e)

\* a.m * 2^a.e is x * 2^(a.e - shift) with a.e - shift even
FloatSqrtAt(a, shift) ==
    FloatSqrtOf(BigShiftLeft(a.m, shift + ((a.e - shift) % 2)),
                (a.e - shift - ((a.e - shift) % 2)) \div 2)

FloatSqrt(a) ==
    IF a.nan THEN FloatNaN
    ELSE IF a.m = <<>> THEN FloatZero
    ELSE FloatSqrtAt(a, IF BigBitLength(a.m) < 110 THEN 110 - BigBitLength(a.m) ELSE 0)

\* the float of the literal or of the quotient p / q of two integers
FloatOfRatio(p, q) == FloatDiv(FloatOfInt(p), FloatOfInt(q))

\* the floats of the literals k / 10 (0.1, -0.3, ...)
Tenths == [k \in -10..10 |-> FloatOfRatio(k, 10)]

Tenth(k) == Tenths[k]

RECURSIVE FloatSumFrom(_, _, _)
\* the floats xs[k..] added to acc one after the other
FloatSumFrom(xs, k, acc) ==
    IF k > Len(xs) THEN acc ELSE FloatSumFrom(xs, k + 1, FloatAdd(acc, xs[k]))

\* np.mean of a list of fewer than 8 floats: they are added to 0.0 in the
\* order of the list and the sum is divided by their number; nan for the
\* empty list
Mean(xs) ==
    IF xs = <<>> THEN FloatNaN
    ELSE FloatDiv(FloatSumFrom(xs, 1, FloatZero), FloatOfInt(Len(xs)))

(***************************************************************************)
(* Similarities.  The cosine of two vectors of small integers is carried   *)
(* as the exact quotient d / sqrt(m) together with its operands x and c,   *)
(* from which SimilarityFloat computes the float64 the code returns; a     *)
(* literal p / q has x = <<>> and c = [sum |-> <<p>>, n |-> q].            *)
(***************************************************************************)
Similarity(d, m, x, c) == [d |-> d, m |-> m, x |-> x, c |-> c]

\* the exact values: s > t
ExactGT(s, t) ==
    LET A == s.d * s.d * t.m
        B == t.d * t.d * s.m
    IN  IF s.d >= 0
        THEN (IF t.d >= 0 THEN A > B ELSE TRUE)
        ELSE (IF t.d >= 0 THEN FALSE ELSE A < B)

ExactGE(s, t) == ~ExactGT(t, s)

\* the float 0.0 of lines 50-51 and 60-61, and the 0 of best_similarity
ZeroSim == Similarity(0, 1, <<>>, [sum |-> <<0>>, n |-> 1])

\* the configured threshold, the float of the literal thr / 10
ThresholdSim(thr) == Similarity(thr, 100, <<>>, [sum |-> <<thr>>, n |-> 10])

RECURSIVE Dot(_, _, _)
Dot(u, v, k) == IF k > Len(u) THEN 0 ELSE u[k] * v[k] + Dot(u, v, k + 1)

RECURSIVE FloatDot(_, _, _, _)
\* np.dot of two float vectors: the products are added to acc in index order
FloatDot(u, v, k, acc) ==
    IF k > Len(u) THEN acc
    ELSE FloatDot(u, v, k + 1, FloatAdd(acc, FloatMul(u[k], v[k])))

\* np.linalg.norm of a float vector
FloatNorm(vec) == FloatSqrt(FloatDot(vec, vec, 1, FloatZero))

\* lines 60-63
FloatCosineOf(dot_product, norm1, norm2) ==
    IF norm1.m = <<>> \/ norm2.m = <<>> THEN FloatZero
    ELSE FloatDiv(dot_product, FloatMul(norm1, norm2))

\* lines 56-58
FloatCosineVecs(vec1, vec2) ==
    FloatCosineOf(FloatDot(vec1, vec2, 1, FloatZero), FloatNorm(vec1), FloatNorm(vec2))

\* lines 53-63 in float64: vec2 is the stored centroid, whose components are
\* the floats sum[k] / n that np.mean(embeddings, axis=0) left
FloatCosine(emb1, centroid) ==
    FloatCosineVecs([k \in 1..Len(emb1) |-> FloatOfInt(emb1[k])],
                    [k \in 1..Len(centroid.sum) |->
                        FloatOfRatio(centroid.sum[k], centroid.n)])

\* the float64 of a similarity.  The components are not negative, so a dot
\* product that is zero is a sum of zeros, and 0.0 / x is 0.0.
SimilarityFloat(s) ==
    IF s.x = <<>> THEN FloatOfRatio(s.c.sum[1], s.c.n)
    ELSE IF s.d = 0 THEN FloatZero
    ELSE FloatCosine(s.x, s.c)

\* s > t for the floats of s and t.  The rounding error of a float is far
\* below the distance of two different exact values of the similarities of
\* small integer vectors, so the floats are computed for equal exact values
\* only, where the rounding decides.
SimilarityFloats(ss) == [k \in 1..Len(ss) |-> SimilarityFloat(ss[k])]

FloatsGT(fs) == FloatGT(fs[1], fs[2])

FloatsGE(fs) == ~FloatLT(fs[1], fs[2])

SimGT(s, t) ==
    IF ExactGT(s, t) THEN TRUE
    ELSE IF ExactGT(t, s) THEN FALSE
    ELSE FloatsGT(SimilarityFloats(<<s, t>>))

SimGE(s, t) ==
    IF ExactGT(s, t) THEN TRUE
    ELSE IF ExactGT(t, s) THEN FALSE
    ELSE FloatsGE(SimilarityFloats(<<s, t>>))

(***************************************************************************)
(* NLPProcessor.cosine_similarity (nlp_utils.py 48-63).  emb2 is a         *)
(* centroid [sum, n], the vector sum / n.  The exact value is              *)
(* dot(emb1, sum) / (|emb1| * |sum|), the n cancels; the float64 returned  *)
(* is SimilarityFloat of the result.                                       *)
(***************************************************************************)
cosine_similarity(emb1, centroid) ==
    IF emb1 = <<>> \/ centroid.sum = <<>> THEN ZeroSim
    ELSE LET n1 == Dot(emb1, emb1, 1)
             n2 == Dot(centroid.sum, centroid.sum, 1)
         IN  IF n1 = 0 \/ n2 = 0 THEN ZeroSim
             ELSE Similarity(Dot(emb1, centroid.sum, 1), n1 * n2, emb1, centroid)

(***************************************************************************)
(* sklearn.cluster.DBSCAN(eps, min_samples, metric='cosine').fit_predict   *)
(* as called at event_clustering.py 38-42.  X is the list of embeddings.   *)
(* Two points are neighbours when their cosine distance 1 - cos is at most *)
(* eps = 1 - similarity_threshold, that is when cos >= threshold; a point  *)
(* is a neighbour of itself.  The primitive computes the distances itself, *)
(* the cosines are compared by their exact values.                         *)
(***************************************************************************)
Neighbours(X, i, thr) ==
    {j \in 1..Len(X) :
        j = i \/ ExactGE(cosine_similarity(X[i], [sum |-> X[j], n |-> 1]),
                         ThresholdSim(thr))}

\* a core point has at least min_samples neighbours, itself included
IsCore(X, i, thr, mcs) == Cardinality(Neighbours(X, i, thr)) >= mcs

RECURSIVE Expand(_, _, _, _)
\* the points reached from the set S through core points
Expand(X, S, thr, mcs) ==
    LET S2 == S \cup UNION {Neighbours(X, j, thr) : j \in {k \in S : IsCore(X, k, thr, mcs)}}
    IN  IF S2 = S THEN S ELSE Expand(X, S2, thr, mcs)

RECURSIVE DbscanLabels(_, _, _, _, _, _)
\* points are visited in index order; an unlabelled core point starts the
\* next label and gives it to every still unlabelled point it reaches
DbscanLabels(X, thr, mcs, i, labels, next) ==
    IF i > Len(X) THEN labels
    ELSE IF labels[i] # -1 \/ ~IsCore(X, i, thr, mcs)
         THEN DbscanLabels(X, thr, mcs, i + 1, labels, next)
         ELSE LET C == {j \in Expand(X, {i}, thr, mcs) : labels[j] = -1}
              IN  DbscanLabels(X, thr, mcs, i + 1,
                               [j \in 1..Len(X) |-> IF j \in C THEN next ELSE labels[j]],
                               next + 1)

\* the embeddings of X do not all have the same length
Ragged(X) == \E j \in 1..Len(X) : \E k \in 1..Len(X) : Len(X[j]) # Len(X[k])

\* np.array of lists of different lengths (line 34): numpy from 1.24 on
\* raises ValueError, an earlier numpy returns an array of list objects
RaggedArrayModes == {"raises", "object_array"}

\* line 34 raises
ArrayRaises(X, mode) == Ragged(X) /\ mode = "raises"

\* fit validates the parameters (eps must be > 0, min_samples >= 1) and the
\* array, which must be numeric and two-dimensional
DbscanRaises(X, thr, mcs) == 10 - thr <= 0 \/ mcs < 1 \/ Ragged(X)

fit_predict(X, thr, mcs) ==
    DbscanLabels(X, thr, mcs, 1, [j \in 1..Len(X) |-> -1], 0)

(***************************************************************************)
(* EventClusteringAgent._create_cluster (event_clustering.py 67-114)       *)
(***************************************************************************)
RECURSIVE SumVecs(_, _)
SumVecs(embs, k) ==
    IF k > Len(embs) THEN <<>>
    ELSE IF k = Len(embs) THEN embs[k]
    ELSE LET rest == SumVecs(embs, k + 1)
         IN  [c \in 1..Len(embs[k]) |-> embs[k][c] + rest[c]]

NoCentroid == [sum |-> <<>>, n |-> 0]

\* np.mean(embeddings, axis=0) over the members that have an embedding
Centroid(articles) ==
    LET withEmb == {k \in 1..Len(articles) : articles[k].embedding # <<>>}
        embs == SelectIdx([k \in 1..Len(articles) |-> articles[k].embedding], withEmb, 1)
    IN  IF embs = <<>> THEN NoCentroid
        ELSE [sum |-> SumVecs(embs, 1), n |-> Len(embs)]

RECURSIVE SortInts(_)
\* sorted(...) of a list of ids
SortInts(s) ==
    IF s = <<>> THEN <<>>
    ELSE LET x == s[1]
             rest == SortInts(Tail(s))
             le == {k \in 1..Len(rest) : rest[k] < x}
         IN  SelectIdx(rest, le, 1) \o <<x>> \o SelectIdx(rest, (1..Len(rest)) \ le, 1)

\* the string ''.join(sorted ids) that is hashed into the cluster id
ClusterId(articles) == SortInts([k \in 1..Len(articles) |-> articles[k].id])

MinOf(S) == CHOOSE x \in S : \A y \in S : x <= y
MaxOf(S) == CHOOSE x \in S : \A y \in S : x >= y

\* s[-n:]
LastN(s, n) == IF Len(s) <= n THEN s ELSE SubSeq(s, Len(s) - n + 1, Len(s))

\* s[:n]
Take(s, n) == SubSeq(s, 1, IF n < Len(s) THEN n ELSE Len(s))

RECURSIVE Concat(_, _)
\* the lists of ls from position k on, joined into one list
Concat(ls, k) == IF k > Len(ls) THEN <<>> ELSE ls[k] \o Concat(ls, k + 1)

RECURSIVE Dedupe(_, _, _)
\* the keys of a dict filled from s in order: first occurrences, in order
Dedupe(s, k, seen) ==
    IF k > Len(s) THEN <<>>
    ELSE IF s[k] \in seen THEN Dedupe(s, k + 1, seen)
         ELSE <<s[k]>> \o Dedupe(s, k + 1, seen \cup {s[k]})

\* the number of occurrences of x in s
CountIn(s, x) == Cardinality({k \in 1..Len(s) : s[k] = x})

\* lines 80-95: the keys of keyword_counts in insertion order that reach
\* min_occurrences, cut to 10
cluster_keywords(articles) ==
    LET all_keywords == Concat([k \in 1..Len(articles) |-> articles[k].keywords], 1)
        keys == Dedupe(all_keywords, 1, {})
        min_occurrences == IF Len(articles) \div 3 > 2 THEN Len(articles) \div 3 ELSE 2
    IN  Take(SelectIdx(keys, {k \in 1..Len(keys) :
                                 CountIn(all_keywords, keys[k]) >= min_occurrences}, 1),
             10)

(***************************************************************************)
(* NLPProcessor.extract_keywords and extract_entities (nlp_utils.py 65-86, *)
(* 146-171) on a word list.  The vocabulary of the texts: one leader, one  *)
(* country and one organization of the lists in extract_entities, and the  *)
(* words extract_keywords drops (stop words and words of at most 3         *)
(* letters).                                                               *)
(***************************************************************************)
Leaders == {"putin"}
Countries == {"ukraine"}
Organizations == {"nato"}
DroppedWords == {"the", "war", "now", "must"}

RECURSIVE SortByCount(_, _)
\* sorted(keys, key=count in s, reverse=True): stable, most frequent first
SortByCount(keys, s) ==
    IF keys = <<>> THEN <<>>
    ELSE LET x == keys[1]
             rest == SortByCount(Tail(keys), s)
             before == {k \in 1..Len(rest) : CountIn(s, rest[k]) > CountIn(s, x)}
         IN  SelectIdx(rest, before, 1) \o <<x>>
                 \o SelectIdx(rest, (1..Len(rest)) \ before, 1)

\* Counter(words).most_common(top_n) of the words that are kept
extract_keywords(text, top_n) ==
    LET words == SelectIdx(text, {k \in 1..Len(text) : text[k] \notin DroppedWords}, 1)
    IN  Take(SortByCount(Dedupe(words, 1, {}), words), top_n)

\* the entities of one category found in a title, each once
extract_entities(title, category) ==
    {title[k] : k \in 1..Len(title)} \cap category

\* how many member titles name the entity e
EntityCount(articles, e, category) ==
    Cardinality({k \in 1..Len(articles) : e \in extract_entities(articles[k].title, category)})

\* the cased letters of ASCII: c.upper() and c.lower() of a character
UpperOf ==
    [c \in {"a", "b", "c", "d", "e", "f", "g", "h", "i", "j", "k", "l", "m",
            "n", "o", "p", "q", "r", "s", "t", "u", "v", "w", "x", "y", "z"} |->
        CASE c = "a" -> "A" [] c = "b" -> "B" [] c = "c" -> "C" [] c = "d" -> "D"
          [] c = "e" -> "E" [] c = "f" -> "F" [] c = "g" -> "G" [] c = "h" -> "H"
          [] c = "i" -> "I" [] c = "j" -> "J" [] c = "k" -> "K" [] c = "l" -> "L"
          [] c = "m" -> "M" [] c = "n" -> "N" [] c = "o" -> "O" [] c = "p" -> "P"
          [] c = "q" -> "Q" [] c = "r" -> "R" [] c = "s" -> "S" [] c = "t" -> "T"
          [] c = "u" -> "U" [] c = "v" -> "V" [] c = "w" -> "W" [] c = "x" -> "X"
          [] c = "y" -> "Y" [] c = "z" -> "Z"]

LowerOf ==
    [C \in {UpperOf[c] : c \in DOMAIN UpperOf} |->
        CHOOSE c \in DOMAIN UpperOf : UpperOf[c] = C]

RECURSIVE TitleFrom(_, _, _)
\* str.title() from character k on: a cased letter is upper case after a
\* character that is no cased letter and lower case after a cased letter;
\* every other character stays
TitleFrom(w, k, after_letter) ==
    IF k > Len(w) THEN ""
    ELSE LET c == SubSeq(w, k, k)
             lower == c \in DOMAIN UpperOf
             upper == c \in DOMAIN LowerOf
             t == IF after_letter THEN (IF upper THEN LowerOf[c] ELSE c)
                  ELSE (IF lower THEN UpperOf[c] ELSE c)
         IN  t \o TitleFrom(w, k + 1, lower \/ upper)

\* w.title()
Title(w) == TitleFrom(w, 1, FALSE)

RECURSIVE JoinFrom(_, _)
\* ' - '.join(parts) from part k on
JoinFrom(parts, k) ==
    IF k > Len(parts) THEN ""
    ELSE IF k = Len(parts) THEN parts[k]
    ELSE parts[k] \o " - " \o JoinFrom(parts, k + 1)

\* text[:n]
Cut(text, n) == IF Len(text) <= n THEN text ELSE SubSeq(text, 1, n)

(***************************************************************************)
(* EventClusteringAgent._generate_event_name (event_clustering.py          *)
(* 116-169).  The name is the string the code returns: the parts joined    *)
(* with ' - ' and cut to 100 characters.  With one leader and one country  *)
(* in the vocabulary the most frequent leader and the two most frequent    *)
(* countries do not depend on the iteration order of the entity sets.      *)
(***************************************************************************)
generate_event_name(articles, keywords) ==
    LET found(category) == {e \in category : EntityCount(articles, e, category) > 0}
        top_leader == IF found(Leaders) = {} THEN <<>>
                      ELSE <<Title(CHOOSE l \in found(Leaders) :
                                \A m \in found(Leaders) :
                                    EntityCount(articles, l, Leaders)
                                        >= EntityCount(articles, m, Leaders))>>
        top_countries == IF found(Countries) = {} THEN <<>>
                         ELSE <<Title(CHOOSE c \in found(Countries) : TRUE)>>
        topic == IF keywords # <<>> THEN <<keywords[1]>> ELSE <<>>
        resolved == top_leader \o top_countries \o topic
        all_titles == Concat([k \in 1..Len(articles) |-> articles[k].title], 1)
        fallback_keywords == Take(extract_keywords(all_titles, 3), 2)
        fallback == [k \in 1..Len(fallback_keywords) |-> Title(fallback_keywords[k])]
        name_parts == IF resolved # <<>> THEN resolved ELSE fallback
        event_name == IF name_parts # <<>> THEN JoinFrom(name_parts, 1)
                      ELSE "Geopolitical Event"
    IN  Cut(event_name, 100)

create_cluster(articles) ==
    LET dates == {articles[k].published_at : k \in 1..Len(articles)}
        keywords == cluster_keywords(articles)
    IN  [id |-> ClusterId(articles),
         event_name |-> generate_event_name(articles, keywords),
         articles |-> articles,
         centroid_embedding |-> Centroid(articles),
         keywords |-> keywords,
         first_seen |-> MinOf(dates),
         last_updated |-> MaxOf(dates),
         article_count |-> Len(articles)]

(***************************************************************************)
(* EventClusteringAgent.cluster_articles (event_clustering.py 19-65)       *)
(***************************************************************************)
\* the filter left out: every article is handed to the clustering
AllArticles(articles) == articles

\* [a for a in articles if a.embedding]
ArticlesWithEmbeddings(articles) ==
    SelectIdx(articles, {k \in 1..Len(articles) : articles[k].embedding # <<>>}, 1)

RECURSIVE LabelOrder(_, _, _)
\* the keys of clusters_dict in insertion order: the labels other than -1
\* in the order in which the article list first shows them
LabelOrder(labels, k, seen) ==
    IF k > Len(labels) THEN <<>>
    ELSE IF labels[k] = -1 \/ labels[k] \in seen
         THEN LabelOrder(labels, k + 1, seen)
         ELSE <<labels[k]>> \o LabelOrder(labels, k + 1, seen \cup {labels[k]})

RECURSIVE SortBySize(_)
\* clusters.sort(key=article_count, reverse=True): stable, largest first
SortBySize(cs) ==
    IF cs = <<>> THEN <<>>
    ELSE LET x == cs[1]
             rest == SortBySize(Tail(cs))
             before == {k \in 1..Len(rest) : rest[k].article_count > x.article_count}
         IN  SelectIdx(rest, before, 1) \o <<x>>
                 \o SelectIdx(rest, (1..Len(rest)) \ before, 1)

\* the call ends with the exception of line 34, which is outside the try of
\* lines 41-45
cluster_articles_raises(articles, mcs, mode) ==
    LET awe == ArticlesWithEmbeddings(articles)
    IN  /\ articles # <<>>
        /\ Len(awe) >= mcs
        /\ ArrayRaises([k \in 1..Len(awe) |-> awe[k].embedding], mode)

\* the list returned when line 34 does not raise
cluster_articles(articles, thr, mcs) ==
    IF articles = <<>> THEN <<>>
    ELSE LET awe == ArticlesWithEmbeddings(articles)
             X == [k \in 1..Len(awe) |-> awe[k].embedding]
         IN  IF Len(awe) < mcs THEN <<>>
             ELSE IF DbscanRaises(X, thr, mcs) THEN <<>>
             ELSE LET labels == fit_predict(X, thr, mcs)
                      order == LabelOrder(labels, 1, {})
                      created == [c \in 1..Len(order) |->
                                    create_cluster(SelectIdx(awe,
                                        {k \in 1..Len(awe) : labels[k] = order[c]}, 1))]
                  IN  SortBySize(created)

(***************************************************************************)
(* ArticleCluster.add_article (article.py 38-42); now is the value read    *)
(* from datetime.now()                                                     *)
(***************************************************************************)
\* add_article that forgets to refresh article_count
add_article_stale_count(cluster, article, now) ==
    [cluster EXCEPT !.articles = Append(@, article),
                    !.last_updated = now]

\* add_article that also recomputes the centroid from the members
add_article_recentred(cluster, article, now) ==
    [cluster EXCEPT !.articles = Append(@, article),
                    !.article_count = Len(cluster.articles) + 1,
                    !.centroid_embedding = Centroid(Append(cluster.articles, article)),
                    !.last_updated = now]

add_article(cluster, article, now) ==
    [cluster EXCEPT !.articles = Append(@, article),
                    !.article_count = Len(Append(cluster.articles, article)),
                    !.last_updated = now]

(***************************************************************************)
(* EventClusteringAgent.merge_clusters (event_clustering.py 171-211)       *)
(***************************************************************************)
RECURSIVE BestCluster(_, _, _, _, _, _)
\* lines 184-196: the index of best_cluster after the scan of old_clusters
\* from index i on, 0 for None; bestSim starts at 0
BestCluster(old, emb, thr, i, best, bestSim) ==
    IF i > Len(old) THEN best
    ELSE IF old[i].centroid_embedding.sum = <<>>
         THEN BestCluster(old, emb, thr, i + 1, best, bestSim)
         ELSE LET similarity == cosine_similarity(emb, old[i].centroid_embedding)
              IN  IF SimGT(similarity, bestSim) /\ SimGE(similarity, ThresholdSim(thr))
                  THEN BestCluster(old, emb, thr, i + 1, i, similarity)
                  ELSE BestCluster(old, emb, thr, i + 1, best, bestSim)

\* np.dot of two arrays of different lengths raises ValueError (nlp_utils.py
\* 56); the scan of lines 187-196 calls it for every cluster with a centroid
CosineRaises(old, emb) ==
    \E i \in 1..Len(old) :
        /\ old[i].centroid_embedding.sum # <<>>
        /\ Len(old[i].centroid_embedding.sum) # Len(emb)

RECURSIVE MergeLoop(_, _, _, _, _, _, _)
\* lines 179-203: the loop over new_articles from position k on; now is the
\* value datetime.now() returns during the call (one call lasts less than
\* one unit of the model's time).  The loop ends at the article whose
\* similarity raises.
MergeLoop(old, new, now, thr, k, unassigned, assign) ==
    IF k > Len(new)
    THEN [clusters |-> old, unassigned |-> unassigned, assign |-> assign, raised |-> FALSE]
    ELSE IF new[k].embedding = <<>>
         THEN MergeLoop(old, new, now, thr, k + 1, unassigned, Append(assign, 0))
         ELSE IF CosineRaises(old, new[k].embedding)
         THEN [clusters |-> old, unassigned |-> unassigned, assign |-> assign, raised |-> TRUE]
         ELSE LET step(best) ==
                      IF best # 0
                      THEN MergeLoop([old EXCEPT ![best] = add_article(@, new[k], now)],
                                     new, now, thr, k + 1, unassigned, Append(assign, best))
                      ELSE MergeLoop(old, new, now, thr, k + 1,
                                     Append(unassigned, new[k]), Append(assign, 0))
              IN  step(BestCluster(old, new[k].embedding, thr, 1, 0, ZeroSim))

\* the value of updated_clusters (line 176), which the loop never fills
merge_result_updated(loop, thr, mcs) == <<>>

\* lines 205-211: old_clusters, extended by the clusters of the unassigned
merge_result(loop, thr, mcs) ==
    IF loop.unassigned # <<>>
    THEN loop.clusters \o cluster_articles(loop.unassigned, thr, mcs)
    ELSE loop.clusters

\* the call ends with an exception: of the similarity, or of line 34 in the
\* clustering of the unassigned
merge_raises(loop, mcs, mode) ==
    \/ loop.raised
    \/ cluster_articles_raises(loop.unassigned, mcs, mode)

merge_clusters(old, new, now, thr, mcs, mode) ==
    LET result(loop) ==
            [clusters |-> IF merge_raises(loop, mcs, mode) THEN loop.clusters
                          ELSE merge_result(loop, thr, mcs),
             assign |-> loop.assign,
             raised |-> merge_raises(loop, mcs, mode)]
    IN  result(MergeLoop(old, new, now, thr, 1, <<>>, <<>>))

(***************************************************************************)
(* EventClusteringAgent.get_cluster_statistics (event_clustering.py        *)
(* 213-232).  A dict is a record; its keys are the DOMAIN of the record.   *)
(***************************************************************************)
Rat(n, d) == [num |-> n, den |-> d]

Min(a, b) == IF a < b THEN a ELSE b

\* max(clusters, key=article_count): the first cluster of the largest size
LargestCluster(cs) ==
    cs[MinOf({i \in 1..Len(cs) : \A j \in 1..Len(cs) :
                  cs[i].article_count >= cs[j].article_count})]

RECURSIVE SumCounts(_, _)
\* sum(c.article_count for c in clusters)
SumCounts(cs, k) == IF k > Len(cs) THEN 0 ELSE cs[k].article_count + SumCounts(cs, k + 1)

get_cluster_statistics(cs) ==
    IF cs = <<>>
    THEN [total_clusters |-> 0,
          total_articles |-> 0,
          avg_articles_per_cluster |-> Rat(0, 1),
          largest_cluster_size |-> 0]
    ELSE [total_clusters |-> Len(cs),
          total_articles |-> SumCounts(cs, 1),
          avg_articles_per_cluster |-> Rat(SumCounts(cs, 1), Len(cs)),
          largest_cluster_size |-> LargestCluster(cs).article_count,
          largest_cluster_name |-> LargestCluster(cs).event_name]

(***************************************************************************)
(* A quotient n / d of two integers with d > 0 that the code computes by   *)
(* one division and compares with an integer.  The float of the quotient   *)
(* is its correct rounding, and rounding keeps the order of a quotient and *)
(* an integer, so the comparisons are made on the fractions.               *)
(***************************************************************************)
RatLT(a, b) == a.num * b.den < b.num * a.den
RatGT(a, b) == RatLT(b, a)
RatEq(a, b) == a.num * b.den = b.num * a.den

(***************************************************************************)
(* NLPProcessor.analyze_sentiment_simple and compare_rhetoric              *)
(* (nlp_utils.py 101-125, 173-196) on the texts of two periods.  The       *)
(* sentiments are floats.  list(new - old) of two sets of strings is in    *)
(* the hash order of the strings, which differs from process to process:   *)
(* the three keyword lists are carried as the sets of their entries.       *)
(***************************************************************************)
analyze_sentiment_simple(text) ==
    IF text.pos + text.neg = 0 THEN FloatZero
    ELSE FloatOfRatio(text.pos - text.neg, text.pos + text.neg)

RECURSIVE UrgencyTotal(_, _)
\* sum(len(detect_urgency_indicators(t)) for t in texts)
UrgencyTotal(texts, k) ==
    IF k > Len(texts) THEN 0
    ELSE Cardinality(texts[k].urgent) + UrgencyTotal(texts, k + 1)

compare_rhetoric(texts_old, texts_new) ==
    LET old_sentiment == Mean([k \in 1..Len(texts_old) |-> analyze_sentiment_simple(texts_old[k])])
        new_sentiment == Mean([k \in 1..Len(texts_new) |-> analyze_sentiment_simple(texts_new[k])])
        keywords(texts) ==
            LET top == extract_keywords(
                           Concat([k \in 1..Len(texts) |-> texts[k].words], 1), 20)
            IN  {top[k] : k \in 1..Len(top)}
    IN  [sentiment_change |-> FloatSub(new_sentiment, old_sentiment),
         urgency_change |-> UrgencyTotal(texts_new, 1) - UrgencyTotal(texts_old, 1),
         new_keywords |-> keywords(texts_new) \ keywords(texts_old),
         dropped_keywords |-> keywords(texts_old) \ keywords(texts_new),
         persistent_keywords |-> keywords(texts_old) \cap keywords(texts_new)]

(***************************************************************************)
(* RhetoricAnalyzerAgent (rhetoric_analyzer.py)                            *)
(***************************************************************************)
RECURSIVE SortByDate(_)
\* sorted(articles, key=published_at): stable, earliest first
SortByDate(as) ==
    IF as = <<>> THEN <<>>
    ELSE LET x == as[1]
             rest == SortByDate(Tail(as))
             before == {k \in 1..Len(rest) : rest[k].published_at < x.published_at}
         IN  SelectIdx(rest, before, 1) \o <<x>>
                 \o SelectIdx(rest, (1..Len(rest)) \ before, 1)

\* the stored scores of the articles that have one, in tenths, in order
StoredScores(articles) ==
    LET scored == SelectIdx(articles,
                      {k \in 1..Len(articles) : articles[k].sentiment_score # <<>>}, 1)
    IN  [k \in 1..Len(scored) |-> scored[k].sentiment_score[1]]

\* lines 63-75: the sentiment_score of every trend point
analyze_sentiment_trend(articles) == StoredScores(articles)

\* lines 134-144
sentiment_to_tone(score) ==
    IF FloatLT(score, Tenth(-3)) THEN "highly negative"
    ELSE IF FloatLT(score, Tenth(-1)) THEN "negative"
    ELSE IF FloatLT(score, Tenth(1)) THEN "neutral"
    ELSE IF FloatLT(score, Tenth(3)) THEN "positive"
    ELSE "highly positive"

\* lines 150-156 with the bound of 'stable' made inclusive
shift_direction_inclusive(sentiment_change) ==
    IF ~FloatGT(FloatAbs(sentiment_change), Tenth(1)) THEN "stable"
    ELSE IF FloatGT(sentiment_change, FloatZero) THEN "improving"
    ELSE "deteriorating"

\* lines 150-156
shift_direction(sentiment_change) ==
    IF FloatLT(FloatAbs(sentiment_change), Tenth(1)) THEN "stable"
    ELSE IF FloatGT(sentiment_change, FloatZero) THEN "improving"
    ELSE "deteriorating"

\* lines 111-117: the tone shift of fewer than 2 articles
DefaultToneShift ==
    [initial_tone |-> "neutral",
     current_tone |-> "neutral",
     shift_magnitude |-> FloatZero,
     shift_direction |-> "stable"]

\* the mean stored score of a group, np.mean over the scores that are not None
GroupSentiment(articles) ==
    LET scores == StoredScores(articles)
    IN  Mean([k \in 1..Len(scores) |-> Tenth(scores[k])])

\* keywords[:5] of a list that holds the strings of the set S in hash order:
\* min(5, len) of the strings of S, which ones is not determined
FirstFive(S) == [among |-> S, length |-> Min(5, Cardinality(S))]

\* lines 109-167; articles is the date-sorted member list
analyze_tone_shift(articles) ==
    IF Len(articles) < 2 THEN DefaultToneShift
    ELSE LET half == Len(articles) \div 2
             mid_point == IF half > 1 THEN half ELSE 1
             early_articles == SubSeq(articles, 1, mid_point)
             recent_articles == SubSeq(articles, mid_point + 1, Len(articles))
             tone_shift(comparison) ==
                 [initial_tone |-> sentiment_to_tone(GroupSentiment(early_articles)),
                  current_tone |-> sentiment_to_tone(GroupSentiment(recent_articles)),
                  shift_magnitude |-> FloatAbs(comparison.sentiment_change),
                  shift_direction |-> shift_direction(comparison.sentiment_change),
                  sentiment_change |-> comparison.sentiment_change,
                  urgency_change |-> comparison.urgency_change,
                  new_keywords |-> FirstFive(comparison.new_keywords),
                  dropped_keywords |-> FirstFive(comparison.dropped_keywords)]
         IN  tone_shift(compare_rhetoric(
                 [k \in 1..Len(early_articles) |-> early_articles[k].text],
                 [k \in 1..Len(recent_articles) |-> recent_articles[k].text]))

\* lines 169-178: the set of urgency terms found in any member
find_urgency_indicators(articles) ==
    UNION {articles[k].text.urgent : k \in 1..Len(articles)}

\* nlp_utils.py 88-99: the 2-grams of the words, the 20 most common first
Bigrams(words) == [k \in 1..(Len(words) - 1) |-> <<words[k], words[k + 1]>>]

extract_phrases(words) ==
    LET phrases == Bigrams(words)
        common == Take(SortByCount(Dedupe(phrases, 1, {}), phrases), 20)
    IN  [k \in 1..Len(common) |->
            [phrase |-> common[k], frequency |-> CountIn(phrases, common[k])]]

\* lines 77-107: the ten most common phrases of one period, or of two
analyze_key_phrases(articles) ==
    LET mid_point == Len(articles) \div 2
        periods == IF Len(articles) < 4 THEN <<articles>>
                   ELSE <<SubSeq(articles, 1, mid_point),
                          SubSeq(articles, mid_point + 1, Len(articles))>>
        period_text(as) ==
            Concat([k \in 1..Len(as) |-> TextWords(as[k].title, as[k].description)], 1)
        of(i) ==
            LET top == Take(extract_phrases(period_text(periods[i])), 10)
            IN  [k \in 1..Len(top) |->
                    [phrase |-> top[k].phrase,
                     frequency |-> top[k].frequency,
                     period |-> IF i = 1 THEN "early" ELSE "recent"]]
    IN  Concat([i \in 1..Len(periods) |-> of(i)], 1)

\* lines 180-202: the actors by descending number of texts that name them;
\* actors of equal count stay in the order countries, leaders, organizations.
\* With one name per category a text names at most one entity of a category.
track_actor_mentions(articles) ==
    LET named(k, category) ==
            extract_entities(TextWords(articles[k].title, articles[k].description),
                             category)
        mentions(category) ==
            Concat([k \in 1..Len(articles) |->
                       IF named(k, category) = {} THEN <<>>
                       ELSE <<CHOOSE e \in named(k, category) : TRUE>>], 1)
        all == mentions(Countries) \o mentions(Leaders) \o mentions(Organizations)
        actors == SortByCount(Dedupe(all, 1, {}), all)
    IN  [k \in 1..Len(actors) |-> [actor |-> actors[k], count |-> CountIn(all, actors[k])]]

\* lines 204-225: the number of sources, the time span in days and the
\* articles per day
analyze_linguistic_features(articles) ==
    LET dates == {articles[k].published_at : k \in 1..Len(articles)}
        time_span == IF dates = {} THEN 0 ELSE MaxOf(dates) - MinOf(dates)
    IN  [source_diversity |-> Cardinality({articles[k].source : k \in 1..Len(articles)}),
         time_span_days |-> time_span,
         article_frequency |-> Rat(Len(articles), IF time_span > 1 THEN time_span ELSE 1)]

\* np.mean of the last five scores of the trend, the scores in tenths
RecentSentiment(sentiment_trend) ==
    LET recent == LastN(sentiment_trend, 5)
    IN  Mean([k \in 1..Len(recent) |-> Tenth(recent[k])])

\* lines 227-274: the sentences of the narrative in the order of the list
\* narrative_parts, which the code joins with ' '
generate_rhetoric_narrative(sentiment_trend, tone_shift, key_phrases, urgency_indicators) ==
    LET shift_dir == tone_shift.shift_direction
        tone == IF shift_dir = "stable" THEN <<"remained stable">>
                ELSE IF shift_dir = "deteriorating" THEN <<"deterioration in tone">>
                ELSE <<"showing improvement">>
        urgency == IF urgency_indicators # {} THEN <<"urgency indicators">> ELSE <<>>
        emerging == IF "new_keywords" \in DOMAIN tone_shift
                           /\ tone_shift.new_keywords.length > 0
                    THEN <<"new keywords">> ELSE <<>>
        sentiment(avg_recent) ==
            IF Len(sentiment_trend) > 1
            THEN (IF FloatLT(avg_recent, Tenth(-2)) THEN <<"predominantly negative">>
                  ELSE IF FloatGT(avg_recent, Tenth(2))
                       THEN <<"predominantly positive">>
                       ELSE <<>>)
            ELSE <<>>
    IN  tone \o urgency \o emerging \o sentiment(RecentSentiment(sentiment_trend))

\* lines 16-61; analysis_date, the reading of the clock, is not carried
analyze_cluster(cluster) ==
    LET analysis(sorted_articles, sentiment_trend, key_phrases, tone_shift,
                 urgency_indicators) ==
            [cluster_id |-> cluster.id,
             event_name |-> cluster.event_name,
             sentiment_trend |-> sentiment_trend,
             key_phrases |-> key_phrases,
             tone_shift |-> tone_shift,
             urgency_indicators |-> urgency_indicators,
             actor_mentions |-> track_actor_mentions(sorted_articles),
             linguistic_features |-> analyze_linguistic_features(sorted_articles),
             rhetoric_evolution |-> generate_rhetoric_narrative(
                 sentiment_trend, tone_shift, key_phrases, urgency_indicators)]
        of(sorted_articles) ==
            analysis(sorted_articles,
                     analyze_sentiment_trend(sorted_articles),
                     analyze_key_phrases(sorted_articles),
                     analyze_tone_shift(sorted_articles),
                     find_urgency_indicators(sorted_articles))
    IN  of(SortByDate(cluster.articles))

(***************************************************************************)
(* PredictionAgent._determine_trajectory (prediction_agent.py 72-137).     *)
(* The scores dict is a record of the three accumulators; each rule is the *)
(* amount it adds to them.                                                 *)
(***************************************************************************)
Score(e, d, s) == [escalating |-> e, de_escalating |-> d, stable |-> s]

ScoreAdd(a, b) ==
    Score(a.escalating + b.escalating, a.de_escalating + b.de_escalating,
          a.stable + b.stable)

RECURSIVE SumF(_, _, _)
\* the sum of f[k] * g[k] over k = j .. Len(f)
SumF(f, g, j) == IF j > Len(f) THEN 0 ELSE f[j] * g[j] + SumF(f, g, j + 1)

\* the exact least-squares slope of the points (k - 1, y[k] / 10), n >= 2
Slope(y) ==
    LET n == Len(y)
        x == [k \in 1..n |-> k - 1]
        one == [k \in 1..n |-> 1]
    IN  Rat(n * SumF(x, y, 1) - SumF(x, one, 1) * SumF(y, one, 1),
            10 * (n * SumF(x, x, 1) - SumF(x, one, 1) * SumF(x, one, 1)))

\* np.polyfit(x, y, 1)[0] (line 92) is the double a least-squares solver
\* returns for the exact slope.  A slope of at most five scores in tenths
\* that is not 1/20 is at least 1/500 away from it, far more than the
\* rounding error, so the comparisons of lines 94 and 96 follow the exact
\* slope; at the slope -1/20 or 1/20 they follow the sign of the difference
\* between the double returned and the double of the literal, which depends
\* on the solver of the build.
PolyfitErrors == {-1, 0, 1}

\* the last five scores have a slope at which the rounding decides
AtSlopeBoundary(analysis) ==
    LET at(recent_sentiments) ==
            /\ Len(recent_sentiments) >= 2
            /\ \/ RatEq(Slope(recent_sentiments), Rat(-5, 100))
               \/ RatEq(Slope(recent_sentiments), Rat(5, 100))
    IN  at(LastN(analysis.sentiment_trend, 5))

\* the rounding errors one call of np.polyfit can end with
PolyfitErrorsOf(analysis) == IF AtSlopeBoundary(analysis) THEN PolyfitErrors ELSE {0}

\* one rounding error for each analysis of the list
PolyfitErrorLists(as) ==
    {errs \in [1..Len(as) -> PolyfitErrors] :
        \A i \in 1..Len(as) : errs[i] \in PolyfitErrorsOf(as[i])}

\* line 94: trend < -0.05
TrendBelow(slope, err) ==
    RatLT(slope, Rat(-5, 100)) \/ (RatEq(slope, Rat(-5, 100)) /\ err < 0)

\* line 96: trend > 0.05
TrendAbove(slope, err) ==
    RatGT(slope, Rat(5, 100)) \/ (RatEq(slope, Rat(5, 100)) /\ err > 0)

\* lines 81-99
SentimentTrendRule(analysis, err) ==
    LET recent_sentiments == LastN(analysis.sentiment_trend, 5)
    IN  IF Len(recent_sentiments) < 2 THEN Score(0, 0, 0)
        ELSE IF TrendBelow(Slope(recent_sentiments), err) THEN Score(2, 0, 0)
        ELSE IF TrendAbove(Slope(recent_sentiments), err) THEN Score(0, 2, 0)
        ELSE Score(0, 0, 1)

\* lines 101-108 with the two directions exchanged
ToneShiftRuleExchanged(analysis) ==
    IF analysis.tone_shift.shift_direction = "deteriorating" THEN Score(0, 2, 0)
    ELSE IF analysis.tone_shift.shift_direction = "improving" THEN Score(2, 0, 0)
    ELSE Score(0, 0, 1)

\* lines 101-108
ToneShiftRule(analysis) ==
    IF analysis.tone_shift.shift_direction = "deteriorating" THEN Score(2, 0, 0)
    ELSE IF analysis.tone_shift.shift_direction = "improving" THEN Score(0, 2, 0)
    ELSE Score(0, 0, 1)

\* lines 110-112 alone: a count below 2 adds nothing
UrgencyCountRuleHighOnly(analysis) ==
    IF Cardinality(analysis.urgency_indicators) > 5 THEN Score(1, 0, 0)
    ELSE Score(0, 0, 0)

\* lines 110-114
UrgencyCountRule(analysis) ==
    IF Cardinality(analysis.urgency_indicators) > 5 THEN Score(1, 0, 0)
    ELSE IF Cardinality(analysis.urgency_indicators) < 2 THEN Score(0, 1, 0)
    ELSE Score(0, 0, 0)

\* tone_shift['urgency_change']: the key is required, <<>> stands for a KeyError
urgency_change_required(tone_shift) ==
    IF "urgency_change" \in DOMAIN tone_shift THEN <<tone_shift.urgency_change>> ELSE <<>>

\* line 117: tone_shift.get('urgency_change', 0)
urgency_change_get(tone_shift) ==
    IF "urgency_change" \in DOMAIN tone_shift THEN <<tone_shift.urgency_change>> ELSE <<0>>

\* lines 116-121
UrgencyChangeRule(analysis) ==
    LET urgency_change == urgency_change_get(analysis.tone_shift)[1]
    IN  IF urgency_change > 2 THEN Score(1, 0, 0)
        ELSE IF urgency_change < -2 THEN Score(0, 1, 0)
        ELSE Score(0, 0, 0)

\* lines 123-126: linguistic_features.get('article_frequency', 0)
ArticleFrequencyRule(analysis) ==
    LET article_freq == IF "article_frequency" \in DOMAIN analysis.linguistic_features
                        THEN analysis.linguistic_features.article_frequency
                        ELSE Rat(0, 1)
    IN  IF RatGT(article_freq, Rat(2, 1)) THEN Score(1, 0, 0) ELSE Score(0, 0, 0)

\* the scores dict when line 128 is reached
trajectory_scores(analysis, err) ==
    ScoreAdd(SentimentTrendRule(analysis, err),
        ScoreAdd(ToneShiftRule(analysis),
            ScoreAdd(UrgencyCountRule(analysis),
                ScoreAdd(UrgencyChangeRule(analysis), ArticleFrequencyRule(analysis)))))

\* lines 133-135 iterating the keys from the last to the first
first_with_score_reversed(scores, max_score) ==
    IF scores.stable = max_score THEN "stable"
    ELSE IF scores.de_escalating = max_score THEN "de-escalating"
    ELSE "escalating"

\* lines 133-135: the first key, in insertion order, that has the maximum
first_with_score(scores, max_score) ==
    IF scores.escalating = max_score THEN "escalating"
    ELSE IF scores.de_escalating = max_score THEN "de-escalating"
    ELSE "stable"

\* the keys of tone_shift that lines 103 and 117 read without a default
TrajectoryKeyError(analysis) ==
    \/ "shift_direction" \notin DOMAIN analysis.tone_shift
    \/ urgency_change_get(analysis.tone_shift) = <<>>

determine_trajectory(cluster, analysis, err) ==
    IF TrajectoryKeyError(analysis) THEN "KeyError"
    ELSE LET chosen(scores, max_score) ==
                 IF max_score = 0 THEN "stable" ELSE first_with_score(scores, max_score)
             of(scores) ==
                 chosen(scores, MaxOf({scores.escalating, scores.de_escalating, scores.stable}))
         IN  of(trajectory_scores(analysis, err))

(***************************************************************************)
(* PredictionAgent._calculate_confidence (prediction_agent.py 139-166).    *)
(* The factors and their mean are floats.  np.std of a list of fewer than  *)
(* 8 floats is the square root of the mean of the squares of the           *)
(* differences from the mean; the trend holds the scores in tenths.        *)
(***************************************************************************)
FloatOne == FloatOfInt(1)

\* min(1.0, p / q)
CappedRatio(p, q) ==
    IF FloatLT(FloatOfRatio(p, q), FloatOne) THEN FloatOfRatio(p, q) ELSE FloatOne

\* line 145: min(1.0, article_count / 20)
article_confidence(cluster) == CappedRatio(cluster.article_count, 20)

\* lines 149-150: min(1.0, time_span / 7), time_span read with default 0
time_confidence(analysis) ==
    CappedRatio(IF "time_span_days" \in DOMAIN analysis.linguistic_features
                THEN analysis.linguistic_features.time_span_days ELSE 0, 7)

\* lines 154-155: min(1.0, source_diversity / 5), read with default 1
source_confidence(analysis) ==
    CappedRatio(IF "source_diversity" \in DOMAIN analysis.linguistic_features
                THEN analysis.linguistic_features.source_diversity ELSE 1, 5)

FloatDeviations(xs, mean) == [k \in 1..Len(xs) |-> FloatSub(xs[k], mean)]

FloatSquares(xs) == [k \in 1..Len(xs) |-> FloatMul(xs[k], xs[k])]

\* np.std of a list of fewer than 8 floats
Std(xs) == FloatSqrt(Mean(FloatSquares(FloatDeviations(xs, Mean(xs)))))

\* max(0, x)
FloatMax0(x) == IF FloatGT(x, FloatZero) THEN x ELSE FloatZero

\* lines 160-162: max(0, 1.0 - np.std(sentiments))
consistency_confidence(sentiment_trend) ==
    FloatMax0(FloatSub(FloatOne,
                       Std([k \in 1..Len(sentiment_trend) |-> Tenth(sentiment_trend[k])])))

\* the fourth factor taken as 0 when the trend has fewer than 3 points
absent_factor_as_zero(analysis) ==
    IF Len(analysis.sentiment_trend) >= 3
    THEN <<consistency_confidence(analysis.sentiment_trend)>>
    ELSE <<FloatZero>>

\* lines 159-163: the fourth factor joins the list from 3 trend points on
consistency_factors(analysis) ==
    IF Len(analysis.sentiment_trend) >= 3
    THEN <<consistency_confidence(analysis.sentiment_trend)>>
    ELSE <<>>

\* the list confidence_factors when line 166 is reached
confidence_factors(cluster, analysis) ==
    <<article_confidence(cluster), time_confidence(analysis), source_confidence(analysis)>>
        \o consistency_factors(analysis)

\* line 166: float(np.mean(confidence_factors))
calculate_confidence(cluster, analysis) == Mean(confidence_factors(cluster, analysis))

(***************************************************************************)
(* PredictionAgent._identify_risk_factors (prediction_agent.py 270-308):   *)
(* the risk factors in the order in which they are appended.  A risk       *)
(* keyword is found when it is part of a phrase; the vocabulary has one    *)
(* word that contains a risk keyword, the keyword 'war' itself.            *)
(***************************************************************************)
RiskKeywords == {"war"}

identify_risk_factors(cluster, analysis) ==
    LET lf == analysis.linguistic_features
        top_actors == Take(analysis.actor_mentions, 5)
        article_freq == IF "article_frequency" \in DOMAIN lf
                        THEN lf.article_frequency ELSE Rat(0, 1)
        phrases == analysis.key_phrases
        found_risk_keywords ==
            {kw \in RiskKeywords :
                \E k \in 1..Len(phrases) : kw \in {phrases[k].phrase[1], phrases[k].phrase[2]}}
    IN  (IF Cardinality(analysis.urgency_indicators) > 5 THEN <<"urgency">> ELSE <<>>)
        \o (IF Len(top_actors) >= 3 THEN <<"actors">> ELSE <<>>)
        \o (IF analysis.sentiment_trend # <<>>
               /\ FloatLT(RecentSentiment(analysis.sentiment_trend), Tenth(-3))
            THEN <<"sentiment">> ELSE <<>>)
        \o (IF RatGT(article_freq, Rat(3, 1)) THEN <<"coverage">> ELSE <<>>)
        \o (IF found_risk_keywords # {} THEN <<"keywords">> ELSE <<>>)

(***************************************************************************)
(* PredictionAgent._calculate_attention_metrics (prediction_agent.py       *)
(* 310-346)                                                                *)
(***************************************************************************)
\* the split of lines 327-329 moved to a third of the list
coverage_split_at_third(n) == n \div 3

\* line 327: mid = len(sorted_articles) // 2
coverage_split(n) == n \div 2

\* lines 326-338
coverage_trend(n) ==
    IF n >= 4
    THEN LET mid == coverage_split(n)
             early_count == mid
             recent_count == n - mid
         IN  IF 2 * recent_count > 3 * early_count THEN "increasing"
             ELSE IF 2 * recent_count < early_count THEN "decreasing"
             ELSE "stable"
    ELSE "insufficient_data"

calculate_attention_metrics(cluster) ==
    LET sorted_articles == SortByDate(cluster.articles)
        n == Len(sorted_articles)
        time_span == IF n > 0
                     THEN sorted_articles[n].published_at - sorted_articles[1].published_at
                     ELSE 0
    IN  [coverage_intensity |-> IF n > 0
                                THEN Rat(cluster.article_count,
                                         IF time_span > 1 THEN time_span ELSE 1)
                                ELSE Rat(0, 1),
         source_diversity |-> Cardinality({cluster.articles[k].source : k \in 1..n}),
         coverage_trend |-> coverage_trend(n),
         total_articles |-> cluster.article_count]

(***************************************************************************)
(* PredictionAgent.predict_trajectory (prediction_agent.py 31-70): the     *)
(* trajectory, the confidence, the risk factors and the attention metrics, *)
(* and whether a step of the call raised.  The steps that build the texts  *)
(* (key indicators, similar patterns, outlooks) read                       *)
(* tone_shift['shift_magnitude'] (line 174), the two tones when the        *)
(* magnitude is above 0.1 (line 176) and shift_direction (line 217); the   *)
(* texts and prediction_date are not carried.                              *)
(***************************************************************************)
PredictKeyError(analysis, trajectory) ==
    LET keys == DOMAIN analysis.tone_shift
    IN  \/ trajectory = "KeyError"
        \/ "shift_magnitude" \notin keys
        \/ /\ "shift_magnitude" \in keys
           /\ FloatGT(analysis.tone_shift.shift_magnitude, Tenth(1))
           /\ ~({"initial_tone", "current_tone"} \subseteq keys)

predict_trajectory(cluster, analysis, err) ==
    LET prediction(trajectory, raised) ==
            [cluster_id |-> cluster.id,
             event_name |-> cluster.event_name,
             trajectory |-> IF raised THEN "none" ELSE trajectory,
             raised |-> raised,
             confidence_score |-> calculate_confidence(cluster, analysis),
             risk_factors |-> identify_risk_factors(cluster, analysis),
             attention_metrics |-> calculate_attention_metrics(cluster)]
        of(trajectory) == prediction(trajectory, PredictKeyError(analysis, trajectory))
    IN  of(determine_trajectory(cluster, analysis, err))

(***************************************************************************)
(* PredictionAgent.generate_summary_report (prediction_agent.py 348-380)   *)
(***************************************************************************)
CountTrajectory(ps, t) == Cardinality({k \in 1..Len(ps) : ps[k].trajectory = t})

\* lines 350-351 left out: the counts of an empty list
summary_counts(ps) ==
    [total_events |-> Len(ps),
     escalating_count |-> CountTrajectory(ps, "escalating"),
     de_escalating_count |-> CountTrajectory(ps, "de-escalating"),
     stable_count |-> CountTrajectory(ps, "stable")]

\* the key of line 358
ByConfidence(p, q) == FloatLT(p.confidence_score, q.confidence_score)

\* the key of line 363 with the confidence alone
ByConfidenceOnly(p, q) == FloatLT(p.confidence_score, q.confidence_score)

\* the key of line 363: the tuple (len(risk_factors), confidence_score)
ByRiskThenConfidence(p, q) ==
    \/ Len(p.risk_factors) < Len(q.risk_factors)
    \/ /\ Len(p.risk_factors) = Len(q.risk_factors)
       /\ FloatLT(p.confidence_score, q.confidence_score)

\* the order of the keys of two predictions
KeyLess(key, p, q) ==
    IF key = "confidence" THEN ByConfidence(p, q) ELSE ByRiskThenConfidence(p, q)

RECURSIVE SortDescending(_, _)
\* sorted(s, key=..., reverse=True): stable, entries of equal key stay in the
\* order of s
SortDescending(s, key) ==
    IF s = <<>> THEN <<>>
    ELSE LET x == s[1]
             rest == SortDescending(Tail(s), key)
             before == {k \in 1..Len(rest) : KeyLess(key, x, rest[k])}
         IN  SelectIdx(rest, before, 1) \o <<x>>
                 \o SelectIdx(rest, (1..Len(rest)) \ before, 1)

generate_summary_report(ps) ==
    IF ps = <<>> THEN [status |-> "no_predictions"]
    ELSE LET escalating == SelectIdx(ps, {k \in 1..Len(ps) :
                                             ps[k].trajectory = "escalating"}, 1)
             top_predictions == Take(SortDescending(ps, "confidence"), 3)
             most_concerning == Take(SortDescending(escalating, "risk"), 3)
         IN  [total_events |-> Len(ps),
              escalating_count |-> Len(escalating),
              de_escalating_count |-> CountTrajectory(ps, "de-escalating"),
              stable_count |-> CountTrajectory(ps, "stable"),
              top_confidence_predictions |->
                  [k \in 1..Len(top_predictions) |->
                      [event |-> top_predictions[k].event_name,
                       confidence |-> top_predictions[k].confidence_score,
                       trajectory |-> top_predictions[k].trajectory]],
              most_concerning_events |->
                  [k \in 1..Len(most_concerning) |->
                      [event |-> most_concerning[k].event_name,
                       risk_factors |-> Len(most_concerning[k].risk_factors)]]]

(***************************************************************************)
(* The state machine.  The agent is constructed with a configuration.  A   *)
(* full run (coordinator.py 45-163) returns when there is no article       *)
(* (lines 77-79); otherwise it clusters the batch, saves the clusters and  *)
(* takes the statistics when there is a cluster (line 88), analyzes every  *)
(* cluster, predicts for every cluster and summarizes the predictions when *)
(* there is one (line 134).  compare_clusters (line 116) reads the         *)
(* clusters and assigns nothing that is carried here.  An update run       *)
(* (coordinator.py 165-198) loads the saved clusters and merges new        *)
(* articles into them; the process that does so may have been constructed  *)
(* with another configuration than the one that saved them.  A call that   *)
(* raises ends the run: main.py 182 catches the exception and exits.  The  *)
(* Call actions are the calls of the public methods of the agents by any   *)
(* other caller, on every input.  Every call is made by a process on one   *)
(* of the numpy builds.                                                    *)
(***************************************************************************)
\* The article list of a full run is the list fetch_news returns, or, with
\* use_existing (coordinator.py 61-63), the concatenation of all the stored
\* article files (storage.py 56-75), in which an article fetched on two
\* days stands twice.
Batches == SeqsUpTo(Articles, MaxBatch)

\* The new articles of an update run come from fetch_news, which removes the
\* duplicates within one list (news_aggregator.py 93); the same article can
\* come back in a later list.
NewBatches == {s \in SeqsUpTo(Articles, MaxNew) : DistinctIds(s)}

\* The member lists of the stored clusters given to the analyzer.  A member
\* can stand several times in the list: a full run over stored articles and
\* every merge can append an article the cluster holds already.
StoredMemberLists == SeqsUpTo(RhetoricArticles, MaxMembers) \ {<<>>}

\* no statistics, analysis, prediction or summary has been computed
PipelineIdle ==
    /\ stats = <<>>
    /\ analyses = <<>>
    /\ predictions = <<>>
    /\ summary = <<>>

Init ==
    /\ \E c \in DOMAIN Configs :
          similarity_threshold = Configs[c][1] /\ min_cluster_size = Configs[c][2]
    /\ clusters = <<>>
    /\ merges = 0
    /\ lastOp = "none"
    /\ lastNew = <<>>
    /\ lastAssign = <<>>
    /\ PipelineIdle
    /\ writers = <<>>

\* the analyzer and the predictor are given one stored cluster
InitStored ==
    /\ similarity_threshold = Configs[1][1] /\ min_cluster_size = Configs[1][2]
    /\ \E members \in StoredMemberLists : clusters = <<create_cluster(members)>>
    /\ merges = 0
    /\ lastOp = "load"
    /\ lastNew = <<>>
    /\ lastAssign = <<>>
    /\ PipelineIdle
    /\ writers = <<>>

\* clusters = cluster_articles(articles) on a new agent; when the call
\* raises nothing is assigned
ClusterBatch(articles) ==
    /\ lastOp = "none"
    /\ \E mode \in RaggedArrayModes :
          IF cluster_articles_raises(articles, min_cluster_size, mode)
          THEN /\ clusters' = clusters
               /\ lastOp' = "raised"
          ELSE /\ clusters' = cluster_articles(articles, similarity_threshold,
                                               min_cluster_size)
               /\ lastOp' = "cluster"
    /\ lastNew' = articles
    /\ lastAssign' = <<>>
    /\ UNCHANGED <<writers, similarity_threshold, min_cluster_size, merges,
                   stats, analyses, predictions, summary>>

\* EventClusteringAgent.cluster_articles called with any article list
CallClusterArticles == \E articles \in Batches : ClusterBatch(articles)

\* coordinator.py 77-86: the full run clusters a batch that is not empty
ClusterArticles == \E articles \in Batches \ {<<>>} : ClusterBatch(articles)

\* a process constructed with another configuration takes over the saved clusters
Reconfigure ==
    /\ lastOp = "cluster"
    /\ \E c \in DOMAIN Configs :
          /\ <<similarity_threshold, min_cluster_size>> # Configs[c]
          /\ similarity_threshold' = Configs[c][1]
          /\ min_cluster_size' = Configs[c][2]
    /\ lastOp' = "configure"
    /\ UNCHANGED <<writers, clusters, merges, lastNew, lastAssign,
                   stats, analyses, predictions, summary>>

\* coordinator.py 165-198.  Without a new article the run returns at line
\* 175 and the stored clusters stay as they are, which is also what
\* merge_clusters returns for an empty list.  The clusters are the objects
\* of the caller's list, so that the articles add_article has appended
\* before the call raises are in them.
MergeWith(new, most) ==
    /\ lastOp \in {"cluster", "configure", "merge"}
    /\ merges < most
    /\ \E now \in Times : \E mode \in RaggedArrayModes :
          \E r \in {merge_clusters(clusters, new, now,
                                   similarity_threshold, min_cluster_size, mode)} :
              /\ clusters' = r.clusters
              /\ lastAssign' = r.assign
              /\ lastOp' = IF r.raised THEN "raised" ELSE "merge"
    /\ lastNew' = new
    /\ merges' = merges + 1
    /\ UNCHANGED <<writers, similarity_threshold, min_cluster_size,
                   stats, analyses, predictions, summary>>

MergeClusters == \E new \in NewBatches : MergeWith(new, MaxMerges)

\* EventClusteringAgent.get_cluster_statistics called with any cluster list
CallGetClusterStatistics ==
    /\ lastOp \in {"cluster", "load"}
    /\ stats' = <<get_cluster_statistics(clusters)>>
    /\ lastOp' = "stats"
    /\ UNCHANGED <<writers, similarity_threshold, min_cluster_size, clusters, merges,
                   lastNew, lastAssign, analyses, predictions, summary>>

\* coordinator.py 88-94: the full run takes the statistics when there is a cluster
GetClusterStatistics == clusters # <<>> /\ CallGetClusterStatistics

\* coordinator.py 105-109; without a cluster the loop follows the clustering
AnalyzeClusters ==
    /\ lastOp = "stats" \/ (lastOp = "cluster" /\ clusters = <<>>)
    /\ analyses' = [i \in 1..Len(clusters) |-> analyze_cluster(clusters[i])]
    /\ lastOp' = "analyze"
    /\ UNCHANGED <<writers, similarity_threshold, min_cluster_size, clusters, merges,
                   lastNew, lastAssign, stats, predictions, summary>>

\* coordinator.py 129-132; every call of np.polyfit ends with one of the
\* rounding errors
PredictTrajectories ==
    /\ lastOp = "analyze"
    /\ \E errs \in PolyfitErrorLists(analyses) :
          predictions' = [i \in 1..Len(clusters) |->
                             predict_trajectory(clusters[i], analyses[i], errs[i])]
    /\ lastOp' = "predict"
    /\ UNCHANGED <<writers, similarity_threshold, min_cluster_size, clusters, merges,
                   lastNew, lastAssign, stats, analyses, summary>>

\* PredictionAgent.generate_summary_report called with any prediction list
CallGenerateSummaryReport ==
    /\ lastOp = "predict"
    /\ summary' = <<generate_summary_report(predictions)>>
    /\ lastOp' = "summary"
    /\ UNCHANGED <<writers, similarity_threshold, min_cluster_size, clusters, merges,
                   lastNew, lastAssign, stats, analyses, predictions>>

\* coordinator.py 134-140: the full run summarizes when there is a prediction
GenerateSummaryReport == predictions # <<>> /\ CallGenerateSummaryReport

Next ==
    \/ ClusterArticles
    \/ Reconfigure
    \/ MergeClusters
    \/ GetClusterStatistics
    \/ AnalyzeClusters
    \/ PredictTrajectories
    \/ GenerateSummaryReport

Spec == Init /\ [][Next]_vars

NextStored ==
    \/ GetClusterStatistics
    \/ AnalyzeClusters
    \/ PredictTrajectories
    \/ GenerateSummaryReport

SpecStored == InitStored /\ [][NextStored]_vars

\* the methods of the agents called one after the other on every input, the
\* empty article list, cluster list and prediction list included
NextCalls ==
    \/ CallClusterArticles
    \/ CallGetClusterStatistics
    \/ AnalyzeClusters
    \/ PredictTrajectories
    \/ CallGenerateSummaryReport

SpecCalls == Init /\ [][NextCalls]_vars

(***************************************************************************)
(* generate_summary_report as a function of the prediction list.  The      *)
(* predictions carry the fields the report reads.                          *)
(***************************************************************************)
Prediction(name, t, c, r) ==
    [event_name |-> name, trajectory |-> t, confidence_score |-> c, risk_factors |-> r]

\* the confidence _calculate_confidence returns for a cluster of count
\* articles over span days from sources sources with the trend of scores
ConfidenceOf(count, span, sources, trend) ==
    calculate_confidence([article_count |-> count],
                         [linguistic_features |-> [time_span_days |-> span,
                                                   source_diversity |-> sources],
                          sentiment_trend |-> trend])

\* A and B have the same confidence 0.5; C and F have a fourth factor; the
\* factors of X and of Y have the same exact mean 3 / 14, and their floats
\* are 0.2142857142857143 and 0.21428571428571427
PredictionValues ==
    { Prediction("A", "escalating", ConfidenceOf(10, 0, 5, <<>>), <<"urgency">>),
      Prediction("B", "escalating", ConfidenceOf(10, 0, 5, <<>>), <<"urgency", "keywords">>),
      Prediction("C", "escalating", ConfidenceOf(10, 0, 5, <<0, 7, 7>>), <<>>),
      Prediction("D", "de-escalating", ConfidenceOf(20, 1, 5, <<>>), <<"sentiment">>),
      Prediction("E", "stable", ConfidenceOf(5, 0, 1, <<>>), <<>>),
      Prediction("F", "escalating", ConfidenceOf(10, 6, 0, <<0, 5, 5>>), <<"urgency">>),
      Prediction("X", "escalating", ConfidenceOf(2, 1, 2, <<>>), <<"urgency">>),
      Prediction("Y", "escalating", ConfidenceOf(6, 1, 1, <<>>), <<"urgency">>) }

\* no event occurs twice in the prediction list
DistinctEvents(ps) ==
    \A j \in 1..Len(ps) : \A k \in 1..Len(ps) : ps[j].event_name = ps[k].event_name => j = k

PredictionLists == {ps \in SeqsUpTo(PredictionValues, MaxPredictions) : DistinctEvents(ps)}

InitSummary ==
    /\ similarity_threshold = Configs[1][1] /\ min_cluster_size = Configs[1][2]
    /\ clusters = <<>>
    /\ merges = 0
    /\ lastOp = "predict"
    /\ lastNew = <<>>
    /\ lastAssign = <<>>
    /\ stats = <<>>
    /\ analyses = <<>>
    /\ predictions \in PredictionLists
    /\ summary = <<>>
    /\ writers = <<>>

NextSummary == CallGenerateSummaryReport

SpecSummary == InitSummary /\ [][NextSummary]_vars

(***************************************************************************)
(* Update runs one after the other (coordinator.py 165-198) on the         *)
(* clusters of a full run over stored articles.  The lists are those of    *)
(* article 1, of article 2, which is near it, of article 3, which is far   *)
(* from it, of article 5, which has no embedding, and of article 6, whose  *)
(* embedding has another dimension.                                        *)
(***************************************************************************)
UpdateArticles == {a \in Articles : a.id \in {1, 2, 3, 5, 6}}

\* the stored articles of the full run: an article can stand twice
SavedBatches == SeqsUpTo(UpdateArticles, MaxSaved) \ {<<>>}

RECURSIVE DistinctSeqsUpTo(_, _)
\* the lists of at most n different elements of S
DistinctSeqsUpTo(S, n) ==
    IF n = 0 THEN {<<>>}
    ELSE LET shorter == DistinctSeqsUpTo(S, n - 1)
         IN  shorter \cup
             UNION {{Append(s, x) : x \in S \ {s[k] : k \in 1..Len(s)}} :
                       s \in {t \in shorter : Len(t) = n - 1}}

\* the new articles of one update run
UpdateBatches == DistinctSeqsUpTo(UpdateArticles, MaxUpdateNew)

ClusterSaved == \E articles \in SavedBatches : ClusterBatch(articles)

MergeUpdate == \E new \in UpdateBatches : MergeWith(new, MaxUpdates)

NextUpdate ==
    \/ ClusterSaved
    \/ MergeUpdate

SpecUpdate == Init /\ [][NextUpdate]_vars

(***************************************************************************)
(* PredictionAgent._calculate_confidence (prediction_agent.py 139-166) as  *)
(* a function of what it reads: the article_count of the cluster, the      *)
(* time_span_days and the source_diversity of the linguistic features and  *)
(* the scores of the sentiment trend.  The values lie below, at and above  *)
(* the caps 20, 7 and 5; the scores are -1.0, 0.3 and 1.0.                 *)
(***************************************************************************)
ArticleCounts == {0, 7, 20, 33}

TimeSpans == {0, 7, 9}

SourceDiversities == {2, 5, 8}

TrendScores == {-10, 3, 10}

InitConfidence ==
    /\ similarity_threshold = Configs[1][1] /\ min_cluster_size = Configs[1][2]
    /\ \E count \in ArticleCounts : clusters = <<[article_count |-> count]>>
    /\ \E span \in TimeSpans : \E sources \in SourceDiversities :
          \E trend \in SeqsUpTo(TrendScores, MaxTrend) :
              analyses = <<[linguistic_features |-> [time_span_days |-> span,
                                                     source_diversity |-> sources],
                            sentiment_trend |-> trend]>>
    /\ merges = 0
    /\ lastOp = "analyze"
    /\ lastNew = <<>>
    /\ lastAssign = <<>>
    /\ stats = <<>>
    /\ predictions = <<>>
    /\ summary = <<>>
    /\ writers = <<>>

\* the call; the list confidence_factors of line 166 is kept with the result
CalculateConfidence ==
    /\ lastOp = "analyze"
    /\ predictions' = <<[confidence_factors |-> confidence_factors(clusters[1], analyses[1]),
                         confidence_score |-> calculate_confidence(clusters[1], analyses[1])]>>
    /\ lastOp' = "confidence"
    /\ UNCHANGED <<writers, similarity_threshold, min_cluster_size, clusters, merges,
                   lastNew, lastAssign, stats, analyses, summary>>

NextConfidence == CalculateConfidence

SpecConfidence == InitConfidence /\ [][NextConfidence]_vars

(***************************************************************************)
(* ArticleCluster.add_article (article.py 38-42) called on one cluster by  *)
(* several merge operations at a time (event_clustering.py 198-200).  The  *)
(* append of line 40, the reading of the length and the assignment of      *)
(* article_count of line 41, and the assignment of last_updated of line 42 *)
(* are steps of their own.  A caller is alone when no other call was in    *)
(* progress while its own was.                                             *)
(***************************************************************************)
Writer(article) == [pc |-> "append", article |-> article, length |-> 0, alone |-> TRUE]

InProgress(w) == writers[w].pc \notin {"append", "done"}

\* the cluster holds article 1 or article 2; the callers add articles 3 and 4
InitWriters ==
    /\ similarity_threshold = Configs[1][1] /\ min_cluster_size = Configs[1][2]
    /\ \E a \in {x \in Articles : x.id \in {1, 2}} : clusters = <<create_cluster(<<a>>)>>
    /\ merges = 0
    /\ lastOp = "load"
    /\ lastNew = <<>>
    /\ lastAssign = <<>>
    /\ PipelineIdle
    /\ \E as \in {s \in SeqsUpTo({x \in Articles : x.id \in {3, 4}}, MaxWriters) :
                     Len(s) = MaxWriters} :
          writers = [w \in 1..MaxWriters |-> Writer(as[w])]

\* the length read before the article has been appended
length_before_append(cluster) == Len(cluster.articles) - 1

\* line 41, right-hand side: len(self.articles)
length_read(cluster) == Len(cluster.articles)

\* what a step of add_article leaves as it is
AddArticleFrame ==
    /\ lastOp' = "add_article"
    /\ UNCHANGED <<similarity_threshold, min_cluster_size, merges, lastNew, lastAssign,
                   stats, analyses, predictions, summary>>

\* line 40
AppendArticle ==
    /\ \E w \in DOMAIN writers :
          /\ writers[w].pc = "append"
          /\ clusters' = [clusters EXCEPT ![1].articles = Append(@, writers[w].article)]
          /\ writers' = [v \in DOMAIN writers |->
                            IF v = w
                            THEN [writers[w] EXCEPT
                                     !.pc = "length",
                                     !.alone = \A u \in DOMAIN writers : ~InProgress(u)]
                            ELSE IF InProgress(v) THEN [writers[v] EXCEPT !.alone = FALSE]
                            ELSE writers[v]]
    /\ AddArticleFrame

\* line 41, the right-hand side
ReadLength ==
    /\ \E w \in DOMAIN writers :
          /\ writers[w].pc = "length"
          /\ writers' = [writers EXCEPT ![w].pc = "count",
                                        ![w].length = length_read(clusters[1])]
    /\ UNCHANGED clusters
    /\ AddArticleFrame

\* line 41, the assignment
WriteCount ==
    /\ \E w \in DOMAIN writers :
          /\ writers[w].pc = "count"
          /\ clusters' = [clusters EXCEPT ![1].article_count = writers[w].length]
          /\ writers' = [writers EXCEPT ![w].pc = "stamp"]
    /\ AddArticleFrame

\* line 42
StampUpdated ==
    /\ \E w \in DOMAIN writers :
          /\ writers[w].pc = "stamp"
          /\ \E now \in Times : clusters' = [clusters EXCEPT ![1].last_updated = now]
          /\ writers' = [writers EXCEPT ![w].pc = "done"]
    /\ AddArticleFrame

NextWriters ==
    \/ AppendArticle
    \/ ReadLength
    \/ WriteCount
    \/ StampUpdated

SpecWriters == InitWriters /\ [][NextWriters]_vars

(***************************************************************************)
(* cluster_articles with min_cluster_size 4 on the articles of two dense   *)
(* regions that touch in one article.  At threshold 0.7 the article b is   *)
(* within eps of c1 and of c2, which are not within eps of each other; p   *)
(* and p' lie within eps of c1 only, q and q' within eps of c2 only.  c1   *)
(* and c2 have four neighbours each and are core points, b has three.      *)
(***************************************************************************)
BorderConfig == <<7, 4>>

BorderArticle(i, e) == Article(i, e, 0, <<>>, <<>>, <<>>, <<>>, "bbc")

BorderArticles ==
    { BorderArticle(21, <<1, 0>>),     \* c1
      BorderArticle(22, <<2, 1>>),     \* b
      BorderArticle(23, <<1, 2>>),     \* c2
      BorderArticle(24, <<2, -1>>),    \* p
      BorderArticle(25, <<2, -1>>),    \* p'
      BorderArticle(26, <<0, 1>>),     \* q
      BorderArticle(27, <<0, 1>>) }    \* q'

BorderBatches == DistinctSeqsUpTo(BorderArticles, MaxBorderBatch)

InitBorder ==
    /\ similarity_threshold = BorderConfig[1] /\ min_cluster_size = BorderConfig[2]
    /\ clusters = <<>>
    /\ merges = 0
    /\ lastOp = "none"
    /\ lastNew = <<>>
    /\ lastAssign = <<>>
    /\ PipelineIdle
    /\ writers = <<>>

ClusterBorderArticles ==
    /\ lastOp = "none"
    /\ \E articles \in BorderBatches :
          /\ clusters' = cluster_articles(articles, similarity_threshold, min_cluster_size)
          /\ lastNew' = articles
    /\ lastOp' = "cluster"
    /\ lastAssign' = <<>>
    /\ UNCHANGED <<writers, similarity_threshold, min_cluster_size, merges,
                   stats, analyses, predictions, summary>>

NextBorder == ClusterBorderArticles

SpecBorder == InitBorder /\ [][NextBorder]_vars

(***************************************************************************)
(* Helpers of the properties                                               *)
(***************************************************************************)
ClusterIdx == 1..Len(clusters)

MemberIds(c) == {c.articles[k].id : k \in 1..Len(c.articles)}

RECURSIVE SumOver(_, _, _)
SumOver(cs, k, count) ==
    IF k > Len(cs) THEN 0
    ELSE (IF count THEN cs[k].article_count ELSE Len(cs[k].articles))
            + SumOver(cs, k + 1, count)

\* sum1 / n1 and sum2 / n2 are the same vector
SameVector(c1, c2) ==
    /\ Len(c1.sum) = Len(c2.sum)
    /\ \A k \in 1..Len(c1.sum) : c1.sum[k] * c2.n = c2.sum[k] * c1.n

\* add_article has run in the last call
Appended == lastOp = "merge" /\ \E k \in 1..Len(lastAssign) : lastAssign[k] # 0

(***************************************************************************)
(* C1: every cluster has article_count = len(articles), so the sums of     *)
(* article_count and of len(articles) over the cluster list are equal.     *)
(***************************************************************************)
C1_ArticleCountIsLength ==
    /\ \A i \in ClusterIdx : clusters[i].article_count = Len(clusters[i].articles)
    /\ SumOver(clusters, 1, TRUE) = SumOver(clusters, 1, FALSE)

\* the second merge has called add_article twice on a cluster that holds an
\* article several times and has five members or more
C1_Witness ==
    /\ lastOp = "merge" /\ merges = 2
    /\ \E j \in 1..Len(lastAssign) : \E k \in 1..Len(lastAssign) :
          /\ j # k
          /\ lastAssign[j] # 0
          /\ lastAssign[j] = lastAssign[k]
          /\ clusters[lastAssign[k]].article_count >= 5
          /\ ~DistinctIds(clusters[lastAssign[k]].articles)

(***************************************************************************)
(* C2: the ids of the articles of a cluster are pairwise distinct.         *)
(***************************************************************************)
C2_NoDuplicateIds ==
    \A i \in ClusterIdx : DistinctIds(clusters[i].articles)

(***************************************************************************)
(* C3: merge_clusters appends a new article that has an embedding to       *)
(* cluster c exactly when c is the first cluster whose centroid similarity *)
(* to the article is the maximum over the existing clusters and that       *)
(* maximum is >= similarity_threshold.                                     *)
(***************************************************************************)
\* the cluster the claim names, 0 when it names none
FirstBestAboveThreshold(old, emb, thr) ==
    LET sim(i) == cosine_similarity(emb, old[i].centroid_embedding)
        best == {i \in 1..Len(old) : \A j \in 1..Len(old) : SimGE(sim(i), sim(j))}
    IN  IF best = {} THEN 0
        ELSE LET c == MinOf(best)
             IN  IF SimGE(sim(c), ThresholdSim(thr)) THEN c ELSE 0

C3_AssignedToFirstBest ==
    [][lastOp' = "merge" =>
         /\ \A k \in 1..Len(lastNew') :
               lastNew'[k].embedding # <<>> =>
                   lastAssign'[k] = FirstBestAboveThreshold(clusters,
                                        lastNew'[k].embedding, similarity_threshold)
         /\ \A i \in ClusterIdx :
               clusters'[i].articles = clusters[i].articles
                   \o SelectIdx(lastNew', {k \in 1..Len(lastNew') : lastAssign'[k] = i}, 1)
      ]_vars

(***************************************************************************)
(* C4: first_seen of every cluster is the minimum published_at of its      *)
(* current members.                                                        *)
(***************************************************************************)
C4_FirstSeenIsEarliestMember ==
    \A i \in ClusterIdx :
        clusters[i].first_seen =
            MinOf({clusters[i].articles[k].published_at : k \in 1..Len(clusters[i].articles)})

(***************************************************************************)
(* C5: first_seen <= last_updated in every cluster, whatever the publish   *)
(* times and the clock values read by add_article.                         *)
(***************************************************************************)
C5_FirstSeenNotAfterLastUpdated ==
    \A i \in ClusterIdx : clusters[i].first_seen <= clusters[i].last_updated

(***************************************************************************)
(* C6: every member of every cluster has a non-empty embedding, and no     *)
(* article without an embedding is given to add_article.                   *)
(***************************************************************************)
C6_MembersHaveEmbeddings ==
    /\ \A i \in ClusterIdx : \A k \in 1..Len(clusters[i].articles) :
          clusters[i].articles[k].embedding # <<>>
    /\ \A k \in 1..Len(lastAssign) : lastNew[k].embedding = <<>> => lastAssign[k] = 0

\* the second merge was given an article without an embedding next to one
\* that it appended
C6_Witness ==
    /\ lastOp = "merge" /\ merges = 2
    /\ \E k \in 1..Len(lastNew) : lastNew[k].embedding = <<>>
    /\ \E k \in 1..Len(lastAssign) : lastAssign[k] # 0

(***************************************************************************)
(* C7: merge_clusters with no new article returns the cluster list as it   *)
(* was: same clusters, same order, every field the same.                   *)
(***************************************************************************)
C7_EmptyMergeChangesNothing ==
    [][(lastOp' = "merge" /\ lastNew' = <<>>) => clusters' = clusters]_vars

\* the empty merge followed a merge that had appended to a cluster
C7_Witness ==
    /\ lastOp = "merge" /\ merges = 2 /\ lastNew = <<>>
    /\ \E i \in ClusterIdx : ~DistinctIds(clusters[i].articles)

(***************************************************************************)
(* C8: merge_clusters keeps the centroid_embedding and the id of every     *)
(* cluster that existed before the call, also of a cluster it appends to;  *)
(* the centroid can then differ from the mean of the members' embeddings.  *)
(***************************************************************************)
C8_CentroidAndIdKept ==
    [][(lastOp # "none" /\ lastOp' \in {"merge", "raised"}) =>
         /\ Len(clusters') >= Len(clusters)
         /\ \A i \in ClusterIdx :
               /\ clusters'[i].id = clusters[i].id
               /\ SameVector(clusters'[i].centroid_embedding, clusters[i].centroid_embedding)
      ]_vars

\* the second merge has appended two articles to a cluster whose centroid
\* is not the mean of its members
C8_Witness ==
    /\ Appended /\ merges = 2
    /\ \E i \in ClusterIdx :
          /\ Cardinality({k \in 1..Len(lastAssign) : lastAssign[k] = i}) = 2
          /\ ~SameVector(clusters[i].centroid_embedding, Centroid(clusters[i].articles))

(***************************************************************************)
(* C9: after merge_clusters a new article without an embedding is in no    *)
(* cluster and a new article with an embedding is in at most one cluster;  *)
(* the new clusters come after the pre-existing ones, whose order is kept. *)
(***************************************************************************)
C9_NewArticleInAtMostOneCluster ==
    [][lastOp' = "merge" =>
         LET holders(a) == {i \in 1..Len(clusters') : a.id \in MemberIds(clusters'[i])}
         IN  /\ \A k \in 1..Len(lastNew') :
                   IF lastNew'[k].embedding = <<>>
                   THEN holders(lastNew'[k]) = {}
                   ELSE Cardinality(holders(lastNew'[k])) <= 1
             /\ Len(clusters') >= Len(clusters)
             /\ \A i \in ClusterIdx : clusters'[i].id = clusters[i].id
      ]_vars

(***************************************************************************)
(* C10: when "within eps of each other" splits the embedded input into     *)
(* groups (near inside a group, far across groups), cluster_articles       *)
(* returns one cluster per group of at least min_cluster_size articles,    *)
(* holding exactly the articles of the group.                              *)
(***************************************************************************)
\* the embedded articles of the last input and their pairwise nearness
Embedded == SelectIdx(lastNew, {k \in 1..Len(lastNew) : lastNew[k].embedding # <<>>}, 1)

\* the embeddings of j and k are within eps of each other
Near(j, k) ==
    ExactGE(cosine_similarity(Embedded[j].embedding, [sum |-> Embedded[k].embedding, n |-> 1]),
            ThresholdSim(similarity_threshold))

\* such groups exist exactly when nearness is an equivalence; reflexivity
\* fails only for thresholds above 1.  The cosine distance is that of two
\* embeddings of one dimension.
WellSeparated ==
    /\ ~Ragged([k \in 1..Len(Embedded) |-> Embedded[k].embedding])
    /\ \A j \in 1..Len(Embedded) :
          /\ Near(j, j)
          /\ \A k \in 1..Len(Embedded) : \A l \in 1..Len(Embedded) :
                /\ Near(j, k) => Near(k, j)
                /\ (Near(j, k) /\ Near(k, l)) => Near(j, l)

Group(j) == {k \in 1..Len(Embedded) : Near(j, k)}

LargeGroups ==
    {Group(j) : j \in {k \in 1..Len(Embedded) : Cardinality(Group(k)) >= min_cluster_size}}

OneClusterPerLargeGroup ==
    /\ Len(clusters) = Cardinality(LargeGroups)
    /\ {clusters[i].articles : i \in ClusterIdx}
          = {SelectIdx(Embedded, g, 1) : g \in LargeGroups}

C10_OneClusterPerGroup ==
    (lastOp = "cluster" /\ WellSeparated) => OneClusterPerLargeGroup

(***************************************************************************)
(* Helpers of the properties of the full run                               *)
(***************************************************************************)
\* the last clustering was the one of the full run, whose later steps leave
\* the clusters and the input as they are
RunStages == {"cluster", "stats", "analyze", "predict", "summary"}

Analyzed == lastOp \in {"analyze", "predict", "summary"}

Predicted == lastOp \in {"predict", "summary"}

Labels == {"escalating", "de-escalating", "stable"}

(***************************************************************************)
(* C11: cluster_articles on fewer than min_cluster_size embedded articles  *)
(* (an empty input and an input without embeddings included) returns the   *)
(* empty list, and generate_summary_report on an empty prediction list     *)
(* returns a report whose status is 'no_predictions'.                      *)
(***************************************************************************)
C11_InsufficientInputGivesDefaults ==
    /\ (lastOp \in RunStages /\ Len(Embedded) < min_cluster_size) => clusters = <<>>
    /\ (lastOp = "summary" /\ predictions = <<>>) =>
           /\ "status" \in DOMAIN summary[1]
           /\ summary[1].status = "no_predictions"

\* one embedded article where two are needed, and the run went on to the summary
C11_Witness ==
    /\ lastOp = "summary" /\ predictions = <<>>
    /\ Len(Embedded) = 1 /\ min_cluster_size = 2
    /\ Len(lastNew) > Len(Embedded)

(***************************************************************************)
(* C12: when the clustering primitive raises on the embedded articles (eps *)
(* = 0, embeddings of different dimensions), cluster_articles returns the  *)
(* empty list and no exception leaves it; inside merge_clusters the        *)
(* pre-existing clusters are returned with the articles appended to them   *)
(* and nothing else changed, and no new cluster is added.                  *)
(***************************************************************************)
\* the new articles of a merge whose loop has ended that were left unassigned
Unassigned(new, assign) ==
    SelectIdx(new, {k \in 1..Len(new) : new[k].embedding # <<>> /\ assign[k] = 0}, 1)

\* the primitive is given the embedded articles of the list and raises on them
PrimitiveRaisesOn(articles) ==
    LET embeddings(awe) == [k \in 1..Len(awe) |-> awe[k].embedding]
        raises(awe) ==
            /\ Len(awe) >= min_cluster_size
            /\ DbscanRaises(embeddings(awe), similarity_threshold, min_cluster_size)
    IN  raises(ArticlesWithEmbeddings(articles))

C12_PrimitiveFailureGivesNoCluster ==
    [][/\ (lastOp = "none" /\ lastOp' # "none" /\ PrimitiveRaisesOn(lastNew'))
          => /\ lastOp' = "cluster"
             /\ clusters' = <<>>
       /\ (lastOp # "none" /\ lastOp' \in {"merge", "raised"}
              /\ Len(lastAssign') = Len(lastNew')
              /\ PrimitiveRaisesOn(Unassigned(lastNew', lastAssign')))
          => /\ lastOp' = "merge"
             /\ Len(clusters') = Len(clusters)
             /\ \A i \in ClusterIdx :
                   /\ clusters'[i].articles = clusters[i].articles
                         \o SelectIdx(lastNew', {k \in 1..Len(lastNew') : lastAssign'[k] = i}, 1)
                   /\ clusters'[i].id = clusters[i].id
                   /\ clusters'[i].keywords = clusters[i].keywords
                   /\ clusters'[i].first_seen = clusters[i].first_seen
      ]_vars

(***************************************************************************)
(* C13: the id of a cluster created by cluster_articles is a function of   *)
(* the set of its member ids: the same for every order of the input and    *)
(* whatever the other articles of the batch are.                           *)
(***************************************************************************)
RECURSIVE IdOfMemberSet(_)
\* the id that belongs to a set of member ids: its elements in ascending order
IdOfMemberSet(S) ==
    IF S = {} THEN <<>> ELSE <<MinOf(S)>> \o IdOfMemberSet(S \ {MinOf(S)})

C13_IdIsFunctionOfMemberSet ==
    lastOp \in RunStages =>
        \A i \in ClusterIdx : clusters[i].id = IdOfMemberSet(MemberIds(clusters[i]))

(***************************************************************************)
(* C14: the keywords of a cluster created by cluster_articles are the      *)
(* first 10 of the keywords that occur in at least                         *)
(* max(2, article_count // 3) member articles, ordered by descending       *)
(* frequency and, among equal frequencies, by first occurrence.            *)
(***************************************************************************)
\* the number of member articles that carry the keyword
KeywordFrequency(articles, kw) ==
    Cardinality({k \in 1..Len(articles) :
                    \E j \in 1..Len(articles[k].keywords) : articles[k].keywords[j] = kw})

RECURSIVE ByFrequency(_, _)
\* keys ordered by descending frequency, earlier first among equals
ByFrequency(keys, articles) ==
    IF keys = <<>> THEN <<>>
    ELSE LET best == MinOf({k \in 1..Len(keys) : \A j \in 1..Len(keys) :
                              KeywordFrequency(articles, keys[k])
                                  >= KeywordFrequency(articles, keys[j])})
         IN  <<keys[best]>>
                 \o ByFrequency(SelectIdx(keys, (1..Len(keys)) \ {best}, 1), articles)

KeywordsByFrequency(articles) ==
    LET first_seen_order == Dedupe(Concat([k \in 1..Len(articles) |-> articles[k].keywords], 1),
                                   1, {})
        needed == IF Len(articles) \div 3 > 2 THEN Len(articles) \div 3 ELSE 2
        frequent == SelectIdx(first_seen_order,
                        {k \in 1..Len(first_seen_order) :
                            KeywordFrequency(articles, first_seen_order[k]) >= needed}, 1)
    IN  Take(ByFrequency(frequent, articles), 10)

C14_KeywordsByDescendingFrequency ==
    lastOp \in RunStages =>
        \A i \in ClusterIdx :
            clusters[i].keywords = KeywordsByFrequency(clusters[i].articles)

(***************************************************************************)
(* C15: get_cluster_statistics returns the same statistics for an empty    *)
(* and a non-empty cluster list (count, total articles, mean, largest size *)
(* and largest name), zero or empty for the empty list; for a non-empty    *)
(* list total_articles is the sum of article_count and                     *)
(* largest_cluster_size is the maximum article_count.                      *)
(***************************************************************************)
StatisticsKeys ==
    {"total_clusters", "total_articles", "avg_articles_per_cluster",
     "largest_cluster_size", "largest_cluster_name"}

C15_StatisticsAlwaysComplete ==
    lastOp = "stats" =>
        /\ DOMAIN stats[1] = StatisticsKeys
        /\ stats[1].total_clusters = Len(clusters)
        /\ stats[1].total_articles = SumOver(clusters, 1, TRUE)
        /\ \A i \in ClusterIdx : stats[1].largest_cluster_size >= clusters[i].article_count
        /\ clusters # <<>> =>
              \E i \in ClusterIdx : stats[1].largest_cluster_size = clusters[i].article_count
        /\ clusters = <<>> =>
              /\ stats[1].largest_cluster_size = 0
              /\ RatEq(stats[1].avg_articles_per_cluster, Rat(0, 1))

(***************************************************************************)
(* C16: in the tone shift of a cluster with at least 2 members the         *)
(* direction is 'stable' exactly when |sentiment_change| < 0.1,            *)
(* 'improving' when sentiment_change >= 0.1, 'deteriorating' when          *)
(* sentiment_change <= -0.1, and shift_magnitude = |sentiment_change|.     *)
(***************************************************************************)
C16_ToneShiftDirection ==
    Analyzed =>
        \A i \in ClusterIdx :
            Len(clusters[i].articles) >= 2 =>
                LET ts == analyses[i].tone_shift
                    change == ts.sentiment_change
                IN  /\ ts.shift_direction = "stable" <=> FloatLT(FloatAbs(change), Tenth(1))
                    /\ ~FloatLT(change, Tenth(1)) => ts.shift_direction = "improving"
                    /\ ~FloatGT(change, Tenth(-1)) => ts.shift_direction = "deteriorating"
                    /\ FloatEq(ts.shift_magnitude, FloatAbs(change))

\* the boundary: a change that is the float 0.1, which is not stable
C16_Witness ==
    /\ Analyzed
    /\ \E i \in ClusterIdx :
          /\ Len(clusters[i].articles) >= 2
          /\ FloatEq(analyses[i].tone_shift.sentiment_change, Tenth(1))
          /\ analyses[i].tone_shift.shift_direction = "improving"

(***************************************************************************)
(* C17: for a cluster with at least 2 members, also when members of a half *)
(* have no sentiment_score, initial_tone and current_tone are the labels   *)
(* of the mean of the stored scores of the early and the late group; a     *)
(* group is 'highly positive' only if that mean is >= 0.3.                 *)
(***************************************************************************)
\* the label of the mean total / (10 * n) of n > 0 scores given in tenths
LabelOfMean(total, n) ==
    IF total < -3 * n THEN "highly negative"
    ELSE IF total < -n THEN "negative"
    ELSE IF total < n THEN "neutral"
    ELSE IF total < 3 * n THEN "positive"
    ELSE "highly positive"

RECURSIVE Total(_, _)
Total(scores, k) == IF k > Len(scores) THEN 0 ELSE scores[k] + Total(scores, k + 1)

\* tone is the label the claim gives to the group
ToneOfGroup(tone, group) ==
    LET scores == StoredScores(group)
    IN  /\ scores # <<>> => tone = LabelOfMean(Total(scores, 1), Len(scores))
        /\ tone = "highly positive" =>
              scores # <<>> /\ Total(scores, 1) >= 3 * Len(scores)

C17_TonesAreLabelsOfGroupMeans ==
    Analyzed =>
        \A i \in ClusterIdx :
            Len(clusters[i].articles) >= 2 =>
                LET sorted == SortByDate(clusters[i].articles)
                    mid == IF Len(sorted) \div 2 > 1 THEN Len(sorted) \div 2 ELSE 1
                IN  /\ ToneOfGroup(analyses[i].tone_shift.initial_tone,
                                   SubSeq(sorted, 1, mid))
                    /\ ToneOfGroup(analyses[i].tone_shift.current_tone,
                                   SubSeq(sorted, mid + 1, Len(sorted)))

(***************************************************************************)
(* C18: for a cluster with fewer than 2 members analyze_cluster returns    *)
(* the tone shift neutral / neutral / 0 / stable, and predict_trajectory   *)
(* on that cluster and analysis completes and returns one of the three     *)
(* trajectories.                                                           *)
(***************************************************************************)
C18_SingleMemberDefaults ==
    \A i \in ClusterIdx :
        Len(clusters[i].articles) < 2 =>
            /\ Analyzed =>
                  /\ analyses[i].tone_shift.initial_tone = "neutral"
                  /\ analyses[i].tone_shift.current_tone = "neutral"
                  /\ FloatEq(analyses[i].tone_shift.shift_magnitude, FloatZero)
                  /\ analyses[i].tone_shift.shift_direction = "stable"
            /\ Predicted =>
                  /\ ~predictions[i].raised
                  /\ predictions[i].trajectory \in Labels

\* a single article with six urgency terms: stable and escalating tie
C18_Witness ==
    /\ Predicted
    /\ Len(clusters) = 1 /\ Len(clusters[1].articles) = 1
    /\ predictions[1].trajectory = "escalating"

(***************************************************************************)
(* C19: predict_trajectory returns the label of the highest accumulator    *)
(* after the five scoring rules; among several highest the first in the    *)
(* order escalating, de-escalating, stable; 'stable' when all are zero.    *)
(***************************************************************************)
C19_HighestAccumulatorWins ==
    Predicted =>
        \A i \in ClusterIdx : \E err \in PolyfitErrorsOf(analyses[i]) :
            LET sc == trajectory_scores(analyses[i], err)
                of(l) == IF l = "escalating" THEN sc.escalating
                         ELSE IF l = "de-escalating" THEN sc.de_escalating
                         ELSE sc.stable
                rank(l) == IF l = "escalating" THEN 1
                           ELSE IF l = "de-escalating" THEN 2 ELSE 3
                t == predictions[i].trajectory
            IN  /\ t \in Labels
                /\ \A l \in Labels : of(l) <= of(t)
                /\ (\E l \in Labels : of(l) > 0) =>
                       \A l \in Labels : of(l) = of(t) => rank(t) <= rank(l)
                /\ (\A l \in Labels : of(l) = 0) => t = "stable"

\* escalating and de-escalating share the highest score
C19_Witness ==
    /\ Predicted
    /\ \E i \in ClusterIdx :
          LET sc == trajectory_scores(analyses[i], 0)
          IN  /\ ~AtSlopeBoundary(analyses[i])
              /\ sc.escalating = sc.de_escalating
              /\ sc.escalating > sc.stable
              /\ predictions[i].trajectory = "escalating"

(***************************************************************************)
(* C20: with a deteriorating tone shift, more than 5 urgency indicators    *)
(* and no sentiment-trend point the trajectory is 'escalating', whatever   *)
(* urgency_change and article_frequency are.                               *)
(***************************************************************************)
DeterioratingAndUrgent(i) ==
    /\ analyses[i].tone_shift.shift_direction = "deteriorating"
    /\ Cardinality(analyses[i].urgency_indicators) > 5
    /\ analyses[i].sentiment_trend = <<>>

C20_DeterioratingUrgentEscalates ==
    Predicted =>
        \A i \in ClusterIdx :
            DeterioratingAndUrgent(i) => predictions[i].trajectory = "escalating"

\* the case in which de-escalating scores too: urgency_change below -2
C20_Witness ==
    /\ Predicted
    /\ \E i \in ClusterIdx :
          /\ DeterioratingAndUrgent(i)
          /\ analyses[i].tone_shift.urgency_change < -2
          /\ predictions[i].trajectory = "escalating"

(***************************************************************************)
(* C21: the confidence score of a prediction is the mean of the factors    *)
(* whose data is present: article count / 20, time span / 7 and source     *)
(* diversity / 5, each capped at 1, and from 3 trend points on 1 - std of  *)
(* the scores, floored at 0.  Every factor lies in [0, 1] and so does the  *)
(* score.                                                                  *)
(***************************************************************************)
RECURSIVE PairSpread(_, _, _)
\* the sum of (y[j] - y[k])^2 over the pairs j < k, from the pair (j, k) on;
\* it equals n^2 times the variance of y
PairSpread(y, j, k) ==
    IF j >= Len(y) THEN 0
    ELSE IF k > Len(y) THEN PairSpread(y, j + 1, j + 2)
    ELSE (y[j] - y[k]) * (y[j] - y[k]) + PairSpread(y, j, k + 1)

\* a and b differ by 2^-40 at most
FloatClose(a, b) == ~FloatGT(FloatAbs(FloatSub(a, b)), Float(FALSE, <<1>>, -40))

InUnit(x) == ~FloatLT(x, FloatZero) /\ ~FloatGT(x, FloatOne)

C21_ConfidenceIsMeanOfPresentFactors ==
    lastOp = "confidence" =>
        LET trend == analyses[1].sentiment_trend
            lf == analyses[1].linguistic_features
            factors == predictions[1].confidence_factors
            conf == predictions[1].confidence_score
            n == Len(trend)
            spread == PairSpread(trend, 1, 2)
            rational == 7 * Min(20, clusters[1].article_count)
                            + 20 * Min(7, lf.time_span_days)
                            + 28 * Min(5, lf.source_diversity)
        IN  /\ Len(factors) = IF n < 3 THEN 3 ELSE 4
            /\ \A k \in 1..Len(factors) : InUnit(factors[k])
            /\ n < 3 => FloatClose(conf, FloatOfRatio(rational, 420))
            /\ n >= 3 =>
                  /\ spread <= 100 * n * n
                  /\ FloatClose(conf,
                         FloatSub(FloatOfRatio(rational + 140, 560),
                                  FloatDiv(FloatSqrt(FloatOfInt(spread)),
                                           FloatOfInt(40 * n))))
            /\ InUnit(conf)

\* the three ratios are above their caps and the scores of four trend points
\* differ: the factors are 1.0, 1.0, 1.0 and one below 1.0
C21_Witness ==
    /\ lastOp = "confidence"
    /\ clusters[1].article_count > 20
    /\ analyses[1].linguistic_features.time_span_days > 7
    /\ analyses[1].linguistic_features.source_diversity > 5
    /\ Len(analyses[1].sentiment_trend) = 4
    /\ PairSpread(analyses[1].sentiment_trend, 1, 2) > 0
    /\ \A k \in 1..3 : FloatEq(predictions[1].confidence_factors[k], FloatOne)
    /\ FloatLT(predictions[1].confidence_factors[4], FloatOne)
    /\ FloatLT(predictions[1].confidence_score, FloatOne)

(***************************************************************************)
(* C22: for a non-empty prediction list with trajectories among the three  *)
(* labels, the three counts of the summary report add up to total_events;  *)
(* top_confidence_predictions holds the min(3, n) predictions of highest   *)
(* confidence, highest first; most_concerning_events holds escalating      *)
(* predictions only, at most 3, in descending order of the pair (number of *)
(* risk factors, confidence).                                              *)
(***************************************************************************)
\* the prediction of the list that has the event name e
PredictionOf(e) ==
    predictions[CHOOSE k \in 1..Len(predictions) : predictions[k].event_name = e]

C22_SummaryCountsAndRankings ==
    (lastOp = "summary" /\ predictions # <<>>
         /\ \A k \in 1..Len(predictions) : predictions[k].trajectory \in Labels) =>
        LET r == summary[1]
            n == Len(predictions)
            top == r.top_confidence_predictions
            worst == r.most_concerning_events
            conf(e) == PredictionOf(e).confidence_score
        IN  /\ r.total_events = n
            /\ r.escalating_count + r.de_escalating_count + r.stable_count = r.total_events
            /\ Len(top) = Min(3, n)
            /\ \A j \in 1..Len(top) : \A k \in 1..Len(top) :
                   top[j].event = top[k].event => j = k
            /\ \A k \in 1..Len(top) :
                   /\ \E j \in 1..n : predictions[j].event_name = top[k].event
                   /\ top[k].confidence = conf(top[k].event)
                   /\ top[k].trajectory = PredictionOf(top[k].event).trajectory
            /\ \A k \in 1..(Len(top) - 1) : ~FloatLT(top[k].confidence, top[k + 1].confidence)
            /\ \A j \in 1..n :
                   \/ \E k \in 1..Len(top) : top[k].event = predictions[j].event_name
                   \/ ~FloatLT(top[Len(top)].confidence, predictions[j].confidence_score)
            /\ Len(worst) <= 3
            /\ \A k \in 1..Len(worst) :
                   /\ \E j \in 1..n : predictions[j].event_name = worst[k].event
                   /\ PredictionOf(worst[k].event).trajectory = "escalating"
                   /\ worst[k].risk_factors = Len(PredictionOf(worst[k].event).risk_factors)
            /\ \A k \in 1..(Len(worst) - 1) :
                   \/ worst[k].risk_factors > worst[k + 1].risk_factors
                   \/ /\ worst[k].risk_factors = worst[k + 1].risk_factors
                      /\ ~FloatLT(conf(worst[k].event), conf(worst[k + 1].event))

\* four escalating predictions: both lists are cut to three
C22_Witness ==
    /\ lastOp = "summary"
    /\ Len(predictions) = 4
    /\ summary[1].escalating_count = 4
    /\ Len(summary[1].top_confidence_predictions) = 3
    /\ Len(summary[1].most_concerning_events) = 3

(***************************************************************************)
(* C24: when the add_article calls on one cluster follow one another,      *)
(* article_count equals the length of the member list after every call.    *)
(* When two calls interleave their steps, no append is lost, but the calls *)
(* can end with every article in the list and article_count different      *)
(* from its length (the witness).                                          *)
(***************************************************************************)
NoCallInProgress == \A w \in DOMAIN writers : ~InProgress(w)

C24_SerializedCallsKeepCount ==
    LET c == clusters[1]
    IN  /\ (NoCallInProgress /\ \A w \in DOMAIN writers : writers[w].alone) =>
               c.article_count = Len(c.articles)
        /\ \A w \in DOMAIN writers :
               writers[w].pc # "append" =>
                   \E k \in 1..Len(c.articles) : c.articles[k] = writers[w].article
        /\ c.article_count <= Len(c.articles)

\* both calls have returned, both articles are members, the count is one short
C24_Witness ==
    /\ \A w \in DOMAIN writers : writers[w].pc = "done"
    /\ writers[1].article # writers[2].article
    /\ \A w \in DOMAIN writers :
           \E k \in 1..Len(clusters[1].articles) :
               clusters[1].articles[k] = writers[w].article
    /\ Len(clusters[1].articles) = 3
    /\ clusters[1].article_count # Len(clusters[1].articles)

\* the words of the member titles of a cluster, in member order
AllTitles(c) == Concat([k \in 1..Len(c.articles) |-> c.articles[k].title], 1)

\* no leader and no country is named in a member title, and the cluster has no keyword
NothingResolves(c) ==
    /\ \A k \in 1..Len(c.articles) :
           extract_entities(c.articles[k].title, Leaders \cup Countries) = {}
    /\ c.keywords = <<>>

(***************************************************************************)
(* C26: when no leader, no country and no cluster keyword resolves, the    *)
(* event_name is the three most frequent keywords of the member titles,    *)
(* title-cased and joined by ' - ', and the fixed placeholder when the     *)
(* titles give no keyword; the name of every cluster is limited to 100     *)
(* characters.                                                             *)
(***************************************************************************)
C26_FallbackNameIsTopThreeTitleKeywords ==
    \A i \in ClusterIdx :
        /\ Len(clusters[i].event_name) <= 100
        /\ NothingResolves(clusters[i]) =>
               LET top == extract_keywords(AllTitles(clusters[i]), 3)
               IN  clusters[i].event_name =
                       Cut(IF top = <<>> THEN "Geopolitical Event"
                           ELSE JoinFrom([k \in 1..Len(top) |-> Title(top[k])], 1), 100)

\* the place of a sentence in the fixed order of the narrative
SentencePlace(sentence) ==
    IF sentence \in {"remained stable", "deterioration in tone", "showing improvement"} THEN 1
    ELSE IF sentence = "urgency indicators" THEN 2
    ELSE IF sentence = "new keywords" THEN 3
    ELSE 4

HasSentence(narrative, sentence) == \E k \in 1..Len(narrative) : narrative[k] = sentence

(***************************************************************************)
(* C27: the narrative holds the sentence 'predominantly negative' exactly  *)
(* when the sentiment trend is non-empty and the mean of its last five     *)
(* points is below -0.2, and 'predominantly positive' exactly when that    *)
(* mean is above 0.2, a trend of one point included; the sentences stand   *)
(* in the order tone shift, urgency, emerging keywords, recent sentiment.  *)
(***************************************************************************)
C27_RecentSentimentSentenceForEveryTrend ==
    Analyzed =>
        \A i \in 1..Len(analyses) :
            LET a == analyses[i]
                avg == RecentSentiment(a.sentiment_trend)
                some == a.sentiment_trend # <<>>
                n == a.rhetoric_evolution
            IN  /\ HasSentence(n, "predominantly negative")
                       <=> (some /\ FloatLT(avg, Tenth(-2)))
                /\ HasSentence(n, "predominantly positive")
                       <=> (some /\ FloatGT(avg, Tenth(2)))
                /\ \A j \in 1..Len(n) : \A k \in 1..Len(n) :
                       j < k => SentencePlace(n[j]) < SentencePlace(n[k])

(***************************************************************************)
(* C28: every cluster returned by cluster_articles has at least            *)
(* min_cluster_size member articles, border points between two dense       *)
(* regions included, and no article is a member of two returned clusters.  *)
(***************************************************************************)
C28_ReturnedClustersReachMinSize ==
    lastOp = "cluster" =>
        /\ \A i \in ClusterIdx : Len(clusters[i].articles) >= min_cluster_size
        /\ \A i \in ClusterIdx : \A j \in ClusterIdx :
               i # j => MemberIds(clusters[i]) \cap MemberIds(clusters[j]) = {}

(***************************************************************************)
(* C29: the coverage_trend of the attention metrics is 'insufficient_data' *)
(* for fewer than 4 members and 'stable' for 4 or more: split at           *)
(* len // 2, the second half has at most one article more than the first,  *)
(* and 'increasing' and 'decreasing' are never the value.                  *)
(***************************************************************************)
C29_CoverageTrendIsStableOrInsufficient ==
    /\ Predicted =>
           \A i \in ClusterIdx :
               LET n == Len(clusters[i].articles)
                   trend == predictions[i].attention_metrics.coverage_trend
               IN  /\ n < 4 => trend = "insufficient_data"
                   /\ n >= 4 => trend = "stable"
    /\ \A n \in 0..MaxCoverage :
           /\ coverage_trend(n) = IF n < 4 THEN "insufficient_data" ELSE "stable"
           /\ n >= 4 => (n - coverage_split(n)) - coverage_split(n) \in {0, 1}

\* a cluster of four members, one of them twice in the list, has been
\* predicted and its halves are 2 and 2
C29_Witness ==
    /\ Predicted
    /\ \E i \in ClusterIdx :
          /\ Len(clusters[i].articles) = 4
          /\ ~DistinctIds(clusters[i].articles)
          /\ ~predictions[i].raised
          /\ predictions[i].attention_metrics.coverage_trend = "stable"
          /\ predictions[i].attention_metrics.total_articles = 4

\* a stable tone shift, fewer than 2 trend points, fewer than 2 urgency
\* indicators, |urgency_change| <= 2 and article_frequency <= 2
QuietAnalysis(analysis) ==
    /\ analysis.tone_shift.shift_direction = "stable"
    /\ Len(analysis.sentiment_trend) < 2
    /\ Cardinality(analysis.urgency_indicators) < 2
    /\ urgency_change_get(analysis.tone_shift)[1] \in -2..2
    /\ ~RatGT(analysis.linguistic_features.article_frequency, Rat(2, 1))

(***************************************************************************)
(* C30: predict_trajectory returns 'stable' only when the stable           *)
(* accumulator is strictly above the two others, which needs a tone shift  *)
(* that is neither deteriorating nor improving; a quiet analysis scores    *)
(* de-escalating 1 and stable 1 and is labelled 'de-escalating'; the       *)
(* accumulators are never all zero when the maximum is taken.              *)
(***************************************************************************)
C30_StableNeedsStrictlyHighestAccumulator ==
    Predicted =>
        \A i \in ClusterIdx : \E err \in PolyfitErrorsOf(analyses[i]) :
            LET sc == trajectory_scores(analyses[i], err)
                t == predictions[i].trajectory
            IN  /\ t = "stable" =>
                       /\ sc.stable > sc.escalating
                       /\ sc.stable > sc.de_escalating
                       /\ analyses[i].tone_shift.shift_direction
                              \notin {"deteriorating", "improving"}
                /\ QuietAnalysis(analyses[i]) =>
                       /\ sc = Score(0, 1, 1)
                       /\ ~predictions[i].raised
                       /\ t = "de-escalating"
                /\ sc.escalating + sc.de_escalating + sc.stable > 0

\* a quiet analysis has been predicted: de-escalating and stable tie at 1
C30_Witness ==
    /\ Predicted
    /\ \E i \in ClusterIdx :
          /\ QuietAnalysis(analyses[i])
          /\ trajectory_scores(analyses[i], 0).stable = 1
          /\ predictions[i].trajectory = "de-escalating"

====
